---- MODULE Spec2Model ----
(***************************************************************************)
(* The run-time behaviour of the function that the EVM-bytecode lowering   *)
(* engine (src/src/codegen/operations.rs) emits for a Program, together    *)
(* with the host side of the syscall bridge (src/src/syscall.rs).          *)
(*                                                                         *)
(* One state is one opcode boundary of the emitted function; one action is *)
(* the pair of blocks one codegen_* emitter produces, executed from its    *)
(* entry block to the next boundary (or to the function's return).         *)
(*                                                                         *)
(* TLC has 32-bit integers, so the machine widths are scaled: a stack word *)
(* (i256 in the source) has WordBytes bytes, the gas counter (i64) has     *)
(* GasBits bits and a memory offset (i32) has OffsetBits bits, with        *)
(* OffsetBits < GasBits < 8 * WordBytes as in the source.  Every "32" of   *)
(* the source that means "bytes in a word" is WordBytes here.              *)
(***************************************************************************)
EXTENDS Integers, Sequences, FiniteSets, TLC

\* ------------------------------------------------------------------ widths
WordBytes == 2
GasBits == 13
OffsetBits == 8

\* the low initial gas budgets tried are 0..MaxGas
MaxGas == 12
\* the records of the log list that are kept: more than the largest budget
\* pays for
MaxLogs == 24
\* LOG0..LOG<MaxTopics> are tried
MaxTopics == 4
\* the sizes asked of the host's extend_memory are 0..MaxNewSize
MaxNewSize == 6
\* the jump targets tried are the pcs 0..MaxPc and values equal to them in
\* fewer bits
MaxPc == 12

RECURSIVE Pow2(_)
Pow2(n) == IF n = 0 THEN 1 ELSE 2 * Pow2(n - 1)

ByteMod == 256
WordBits == 8 * WordBytes
WordMod == Pow2(WordBits)
GasMod == Pow2(GasBits)
OffsetMod == Pow2(OffsetBits)

\* ------------------------------------------------------ program constants
MAX_STACK_SIZE == 1024
REVERT_EXIT_CODE == 3
LOG_BASE_GAS == 375
NONE == -1
PANICKED == -2

\* ExitStatusCode as u8
Return_u8 == 0
Stop_u8 == 1
Revert_u8 == 2
Error_u8 == 3
Default_u8 == 4

\* static gas cost of an operation (constants::gas_cost)
gas_cost(o) ==
    CASE o = "Stop" -> 0
      [] o \in {"Jumpdest"} -> 1
      [] o \in {"Push0", "Pop", "PC", "Msize", "Gas", "Codesize", "CallDataSize"} -> 2
      [] o \in {"Mul", "Div", "Sdiv", "Mod", "SMod", "SignExtend"} -> 5
      [] o \in {"Addmod", "Mulmod", "Jump"} -> 8
      [] o \in {"Exp", "Jumpi"} -> 10
      [] o = "Log" -> LOG_BASE_GAS
      [] OTHER -> 3

\* --------------------------------------------------------- IR arithmetic

\* arith.trunci to the gas / offset width, arith.extui is the identity on values
trunc_gas(v) == v % GasMod
trunc_offset(v) == v % OffsetMod

addi(a, b) == (a + b) % WordMod
subi(a, b) == (a - b) % WordMod

\* (a * b) mod m without leaving TLC's integers: double-and-add
RECURSIVE MulModulo(_, _, _)
MulModulo(a, b, m) ==
    IF b = 0 THEN 0
    ELSE LET half == MulModulo(a, b \div 2, m)
             dbl == (2 * half) % m
         IN IF b % 2 = 1 THEN (dbl + a) % m ELSE dbl

muli(a, b) == MulModulo(a % WordMod, b, WordMod)

\* a word read as a two's-complement number, and back
word_signed(v) == IF v >= WordMod \div 2 THEN v - WordMod ELSE v
from_signed(v) == v % WordMod
Abs(v) == IF v < 0 THEN -v ELSE v

\* arith::divui, arith::remui
divui(lhs, rhs) == lhs \div rhs
remui(lhs, rhs) == lhs % rhs

\* llvm.sdiv: the quotient rounded towards zero; llvm.srem: the remainder,
\* with the sign of the dividend
sdiv_exact(lhs, rhs) ==
    LET a == word_signed(lhs)
        b == word_signed(rhs)
        q == Abs(a) \div Abs(b)
    IN from_signed(IF (a < 0) = (b < 0) THEN q ELSE -q)
srem_exact(lhs, rhs) ==
    LET a == word_signed(lhs)
        b == word_signed(rhs)
        r == Abs(a) % Abs(b)
    IN from_signed(IF a < 0 THEN -r ELSE r)

\* the most negative word divided by -1 overflows: undefined for llvm.sdiv and
\* llvm.srem, any word may come out
SignedOverflow(lhs, rhs) == lhs = WordMod \div 2 /\ rhs = WordMod - 1
sdiv(lhs, rhs) ==
    IF SignedOverflow(lhs, rhs) THEN {WordMod \div 2, 0, WordMod - 1}
    ELSE {sdiv_exact(lhs, rhs)}
srem(lhs, rhs) ==
    IF SignedOverflow(lhs, rhs) THEN {0, WordMod \div 2, WordMod - 1}
    ELSE {srem_exact(lhs, rhs)}

\* arith::extui to 257 bits, then arith::addi: the sum in one bit more than a
\* word
addi_wide(a, b) == (a + b) % (2 * WordMod)

\* arith::extui to 512 bits, then arith::muli: the product in two words,
\* hi * 2^256 + lo, by double-and-add
wide_double(p) ==
    [hi |-> (2 * p.hi + (2 * p.lo) \div WordMod) % WordMod, lo |-> (2 * p.lo) % WordMod]
wide_add(p, a) ==
    [hi |-> (p.hi + (p.lo + a) \div WordMod) % WordMod, lo |-> (p.lo + a) % WordMod]
wide_step(p, a, bit) == IF bit = 1 THEN wide_add(wide_double(p), a) ELSE wide_double(p)
RECURSIVE muli_wide(_, _)
muli_wide(a, b) ==
    IF b = 0 THEN [hi |-> 0, lo |-> 0]
    ELSE CHOOSE r \in {wide_step(p, a, b % 2) : p \in {muli_wide(a, b \div 2)}} : TRUE

\* arith::remui of a two-word value by a word, bit by bit from the top
RECURSIVE ShiftIn(_, _, _, _)
ShiftIn(r, lo, bits, den) ==
    IF bits = 0 THEN r
    ELSE ShiftIn((2 * r + ((lo \div Pow2(bits - 1)) % 2)) % den, lo, bits - 1, den)
remui_wide(p, den) ==
    CHOOSE r \in {ShiftIn(q.hi % den, q.lo, WordBits, den) : q \in {p}} : TRUE

\* arith::trunci to a word
trunc_word(v) == v % WordMod

\* arith::cmpi eq against the constant 0
check_if_zero(v) == v = 0

\* arith::cmpi: the 1-bit result of the predicate on two words
cmpi(predicate, lhs, rhs) ==
    LET holds == CASE predicate = "Eq" -> lhs = rhs
                   [] predicate = "Ult" -> lhs < rhs
                   [] predicate = "Ugt" -> lhs > rhs
                   [] predicate = "Slt" -> word_signed(lhs) < word_signed(rhs)
                   [] predicate = "Sgt" -> word_signed(lhs) > word_signed(rhs)
    IN IF holds THEN 1 ELSE 0

\* arith::extui of a 1-bit value to a word: the bit, and zeroes above it
extui(bit) == bit % 2

\* compare_values: arith::cmpi as a branch condition
compare_values(predicate, lhs, rhs) == cmpi(predicate, lhs, rhs) = 1

\* the constant 255 of the emitters: the word's width in bits less one
value_255 == WordBits - 1

\* arith::shrui and arith::shli by less than the word's width
shrui(value, shift) == value \div Pow2(shift)
shli(value, shift) == (value % Pow2(WordBits - shift)) * Pow2(shift)

\* the constant 255 of codegen_sar
max_shift == WordBits - 1

\* arith::shrsi by less than the word's width: the sign bit fills in from the
\* left
shrsi(value, shift) == from_signed(word_signed(value) \div Pow2(shift))

\* the constants of codegen_signextend: 31, 8, 7 and 255
max_byte_size == WordBytes - 1
bits_per_byte == 8
sign_bit_position_on_byte == 7
max_bits == WordBits - 1

\* bits_to_shift = max_bits - (byte_size * bits_per_byte + sign_bit_position_on_byte)
bits_to_shift(byte_size) ==
    subi(max_bits, addi(muli(byte_size, bits_per_byte), sign_bit_position_on_byte))

\* the constants of codegen_byte: 8, 31 and 31 * 8
BITS_PER_BYTE == 8
MAX_SHIFT == WordBytes - 1
constant_max_shift_in_bits == MAX_SHIFT * BITS_PER_BYTE

\* arith::andi with the mask 0xff
andi_mask(v) == v % ByteMod

\* ------------------------------------------------------------ the program
\* Operation (program.rs): kind, immediate, and the pc the parser computed.
Op(o) == [op |-> o, arg |-> 0]
OpA(o, a) == [op |-> o, arg |-> a]
Push(v) == OpA("Push", v)

\* bytes an operation takes in the bytecode: PUSHn carries its immediate
ByteLen(o) ==
    IF o.op = "Push" THEN (IF o.arg < ByteMod THEN 2 ELSE 1 + WordBytes) ELSE 1

\* Program::from_bytecode: each operation tagged with its byte offset,
\* the first one at offset base
RECURSIVE AssembleAt(_, _)
AssembleAt(ops, base) ==
    IF ops = <<>> THEN <<>>
    ELSE <<[op |-> Head(ops).op, arg |-> Head(ops).arg, pc |-> base]>>
            \o AssembleAt(Tail(ops), base + ByteLen(Head(ops)))

Assemble(ops) == AssembleAt(ops, 0)

code_size(prog) ==
    LET last == prog[Len(prog)] IN last.pc + ByteLen(last)

\* --------------------------------------------------------------- the state
VARIABLES
    program,        \* the Program the function was generated for
    calldata,       \* env.tx.calldata, a sequence of bytes
    initial_gas,    \* the entrypoint's argument
    ip,             \* index in program of the operation whose entry block is next
    exit_code,      \* the u8 main returned, NONE while it runs
    stack_slots,    \* the slots of the stack region written so far
    stack_ptr,      \* STACK_PTR_GLOBAL - STACK_BASEPTR_GLOBAL, in slots
    gas_counter,    \* the gas register
    memory_size,    \* MEMORY_SIZE_GLOBAL
    memory,         \* SyscallContext.memory
    return_data,    \* SyscallContext.return_data
    gas_remaining,  \* SyscallContext.gas_remaining
    exit_status,    \* SyscallContext.exit_status
    logs,           \* SyscallContext.logs
    reserve_failed, \* SyscallContext::extend_memory returned the null pointer
    oob,            \* an access outside the stack region or the memory buffer happened
    memory_ptr,     \* MEMORY_PTR_GLOBAL: the address it holds
    buffer,         \* the address the bytes of SyscallContext.memory are at
    dangling,       \* an access through a pointer the buffer is no longer at happened
    prev            \* the boundary the last operation started from

inputs == <<program, calldata, initial_gas>>
control == <<ip, exit_code>>
globals == <<stack_slots, stack_ptr, gas_counter, memory_size>>
host == <<memory, return_data, gas_remaining, exit_status, logs, reserve_failed>>
pointers == <<memory_ptr, buffer, dangling>>
vars == <<inputs, control, globals, host, oob, pointers, prev>>

Running == exit_code = NONE
CurOp == program[ip]

\* the n-th item from the top at a boundary (1 is the top), 0 if there is none
Operand(b, n) ==
    IF b.ptr - n >= 0 /\ b.ptr - n < Len(b.slots) THEN b.slots[b.ptr + 1 - n] ELSE 0

\* what the next operation starts from, and what the operation before it was
\* given
Boundary ==
    [op |-> CurOp, ip |-> ip, slots |-> stack_slots, ptr |-> stack_ptr,
     gas |-> gas_counter, memory_size |-> memory_size, memory |-> memory,
     logs |-> logs, oob |-> oob, buffer |-> buffer,
     before |-> [op |-> prev.op.op, top |-> Operand(prev, 1), second |-> Operand(prev, 2),
                 arg |-> prev.op.arg,
                 slots |-> IF prev.op.op = "Swap" THEN prev.slots ELSE <<>>]]


\* ------------------------------------------------------------ stack region
Stack == [slots |-> stack_slots, ptr |-> stack_ptr, oob |-> oob]

InRegion(i) == i >= 1 /\ i <= MAX_STACK_SIZE

\* a store of v to the i-th slot of the region
StoreSlot(slots, i, v) ==
    IF i >= 1 /\ i <= Len(slots) THEN [slots EXCEPT ![i] = v]
    ELSE IF i = Len(slots) + 1 /\ InRegion(i) THEN Append(slots, v)
    ELSE slots

\* a load of the i-th slot; junk is what a slot never written (or outside
\* the region) happens to hold
LoadSlot(slots, i, junk) ==
    IF i >= 1 /\ i <= Len(slots) THEN slots[i] ELSE junk

\* store at *top, then top += 1 slot (the stack before is worked out once)
stack_push(st, v) ==
    CHOOSE after \in {[slots |-> StoreSlot(s.slots, s.ptr + 1, v), ptr |-> s.ptr + 1,
                       oob |-> s.oob \/ ~InRegion(s.ptr + 1)] : s \in {st}} : TRUE

\* the address of the i-th slot as the word a store of it leaves in a slot;
\* the region lies where the allocator put it, above the lowest addresses,
\* which hold nothing, by more than its own size
stack_baseptr == WordBytes * MAX_STACK_SIZE + ByteMod
slot_address(i) == (stack_baseptr + WordBytes * (i - 1)) % WordMod

\* stack_pop: old_stack_ptr = the loaded stack pointer - 1 slot, the value is
\* loaded from it, and old_stack_ptr is stored at the address the loaded
\* stack pointer holds, the slot at *top; the global that holds the stack
\* pointer is not written (the stack before is worked out once)
stack_pop(st, junk) ==
    CHOOSE popped \in {[value |-> LoadSlot(s.slots, s.ptr, junk),
                        st |-> [slots |-> StoreSlot(s.slots, s.ptr + 1, slot_address(s.ptr)),
                                ptr |-> s.ptr,
                                oob |-> s.oob \/ ~InRegion(s.ptr) \/ ~InRegion(s.ptr + 1)]] :
                            s \in {st}} : TRUE

\* llvm.store of a 1-bit value: one byte is written, the one at the lowest
\* address, the least significant of the word that was there
store_i1(old, bit) == (old \div ByteMod) * ByteMod + bit

\* stack_push of a value of type i1: the store has the width of the value
stack_push_i1(st, bit, junk) ==
    stack_push(st, store_i1(LoadSlot(st.slots, st.ptr + 1, junk), bit))

\* the value n slots below the top (1 is the top)
get_nth_from_stack(st, n, junk) == LoadSlot(st.slots, st.ptr + 1 - n, junk)

\* exchanges the i-th and the j-th slot from the top
swap_stack_elements(st, i, j, junk) ==
    LET a == LoadSlot(st.slots, st.ptr + 1 - i, junk)
        b == LoadSlot(st.slots, st.ptr + 1 - j, junk)
    IN [slots |-> StoreSlot(StoreSlot(st.slots, st.ptr + 1 - i, b), st.ptr + 1 - j, a),
        ptr |-> st.ptr,
        oob |-> st.oob \/ ~InRegion(st.ptr + 1 - i) \/ ~InRegion(st.ptr + 1 - j)]

\* stack_ptr - n slots >= stack_baseptr
check_stack_has_at_least(st, n) == st.ptr - n >= 0

\* llvm.getelementptr of an address by a constant count of slots
gep_slots(address, count) == (address + WordBytes * count) % WordMod

\* the comparison with the predicate ult in place of ule
check_stack_has_space_for_ult(st, n) ==
    LET top == gep_slots(stack_baseptr, st.ptr)
        subtracted_stack_ptr == gep_slots(top, n - MAX_STACK_SIZE)
    IN subtracted_stack_ptr < stack_baseptr

\* the two globals are loaded, the stack pointer is moved by
\* element_count - MAX_STACK_SIZE slots and compared, as an unsigned
\* address, with the base pointer: ule
check_stack_has_space_for(st, n) ==
    LET top == gep_slots(stack_baseptr, st.ptr)
        subtracted_stack_ptr == gep_slots(top, n - MAX_STACK_SIZE)
    IN subtracted_stack_ptr <= stack_baseptr

\* what a slot that was never written, or a location outside the region,
\* may hold
Garbage == {0, WordMod - 1}
Uninit(needed) == IF needed THEN Garbage ELSE {0}
\* does the operation read one of the n topmost slots where none was written
ReadsGarbage(n) == stack_ptr > Len(stack_slots) \/ stack_ptr < n

\* --------------------------------------------------------------------- gas
\* the gas register and a charge as the signed comparison reads them
to_signed(v) == IF v >= GasMod \div 2 THEN v - GasMod ELSE v

\* decrement-and-test: the flag tells whether the charge was covered, the
\* register is decremented either way
consume_gas_as_value(g, amount) ==
    [flag |-> to_signed(g) >= to_signed(amount), gas |-> (g - amount) % GasMod]
consume_gas(g, amount) == consume_gas_as_value(g, amount % GasMod)

\* ------------------------------------------------------- syscall context
\* ExitStatusCode::to_u8
to_u8(status) ==
    CASE status = "Return" -> Return_u8
      [] status = "Stop" -> Stop_u8
      [] status = "Revert" -> Revert_u8
      [] status = "Error" -> Error_u8
      [] status = "Default" -> Default_u8

\* from_u8 with Error as the arm for every other byte
from_u8_error(value) ==
    CASE value = to_u8("Return") -> "Return"
      [] value = to_u8("Stop") -> "Stop"
      [] value = to_u8("Revert") -> "Revert"
      [] OTHER -> "Error"

\* ExitStatusCode::from_u8
from_u8(value) ==
    CASE value = to_u8("Return") -> "Return"
      [] value = to_u8("Stop") -> "Stop"
      [] value = to_u8("Revert") -> "Revert"
      [] value = to_u8("Error") -> "Error"
      [] OTHER -> "Default"

\* SyscallContext::write_result
write_result(offset, bytes_len, remaining_gas, execution_result) ==
    /\ return_data' = <<offset, bytes_len>>
    /\ gas_remaining' = <<remaining_gas>>
    /\ exit_status' = from_u8(execution_result)

\* SyscallContext::return_values: the recorded slice of the memory; slicing
\* outside the buffer panics
return_values_panics(mem, rd) ==
    LET r == IF rd = <<>> THEN <<0, 0>> ELSE rd
    IN r[1] + r[2] > Len(mem)

return_values(mem, rd) ==
    LET r == IF rd = <<>> THEN <<0, 0>> ELSE rd
    IN [k \in 1..r[2] |-> mem[r[1] + k]]

\* SyscallContext::get_result: the gas and the status recorded, 0 and Default
\* where none was; return_values is called for Success and for Revert, and
\* its panic is get_result's
get_result(mem, rd, gas, status, lg) ==
    LET gas_remaining_or == IF gas = <<>> THEN 0 ELSE gas[1]
        exit_status_or == IF status = "None" THEN "Default" ELSE status
    IN CASE exit_status_or \in {"Return", "Stop"} ->
                IF return_values_panics(mem, rd) THEN [kind |-> "Panic"]
                ELSE [kind |-> "Success", return_data |-> return_values(mem, rd),
                      gas_remaining |-> gas_remaining_or, logs |-> lg]
         [] exit_status_or = "Revert" ->
                IF return_values_panics(mem, rd) THEN [kind |-> "Panic"]
                ELSE [kind |-> "Revert", return_data |-> return_values(mem, rd),
                      gas_remaining |-> gas_remaining_or]
         [] OTHER -> [kind |-> "Halt"]

\* SyscallContext::get_calldata_size: the length as u32
get_calldata_size(data) == Len(data) % OffsetMod

\* arith::minui
minui(a, b) == IF a < b THEN a ELSE b

\* llvm.intr.memcpy of len bytes from src + offset to the start of dst
memcpy(dst, src, offset, len) ==
    [k \in 1..Len(dst) |->
        IF k <= len
        THEN (IF offset + k <= Len(src) THEN src[offset + k] ELSE 0)
        ELSE dst[k]]

\* extend_memory resizing the buffer whatever its length
extend_memory_resize(mem, new_size, reserve_ok) ==
    IF reserve_ok
    THEN [null |-> FALSE,
          memory |-> [i \in 1..new_size |-> IF i <= Len(mem) THEN mem[i] ELSE 0]]
    ELSE [null |-> TRUE, memory |-> mem]

\* SyscallContext::extend_memory: grows the buffer with zeroes; a failed
\* reservation leaves it alone and returns the null pointer
extend_memory_syscall(mem, new_size, reserve_ok) ==
    IF new_size <= Len(mem) THEN [null |-> FALSE, memory |-> mem]
    ELSE IF reserve_ok
         THEN [null |-> FALSE,
               memory |-> mem \o [i \in 1..(new_size - Len(mem)) |-> 0]]
         ELSE [null |-> TRUE, memory |-> mem]

\* is [offset, offset + size) a range of the buffer
InMemory(mem, offset, size) == offset >= 0 /\ offset + size <= Len(mem)

\* the record put in front of the list
Kept_front(records, log) ==
    IF Len(records) < MaxLogs THEN <<log>> \o records ELSE records

\* self.logs.push(log); the model keeps the first MaxLogs records
Kept(records, log) ==
    IF Len(records) < MaxLogs THEN Append(records, log) ELSE records

\* SyscallContext::create_log: a slice outside the buffer panics
create_log(mem, offset, size, topics) ==
    CHOOSE log \in {[data |-> [k \in 1..size |-> m[from + k]], topics |-> topics] :
                    m \in {mem}, from \in {offset}} : TRUE

\* allocate_and_store_value: the word in a fresh slot, in the byte order of
\* the target, least significant byte first
allocate_and_store_value(v) == [k \in 1..WordBytes |-> (v \div Pow2(8 * (k - 1))) % ByteMod]

\* *topic: the U256 the host reads at the pointer, least significant limb
\* first
deref_topic(bs) ==
    LET limb(k) == bs[k] * Pow2(8 * (k - 1))
        sum[k \in 0..Len(bs)] == IF k = 0 THEN 0 ELSE sum[k - 1] + limb(k)
    IN sum[Len(bs)]

\* append_log, append_log_with_one_topic, ... : the topics in the order of
\* the pointers
append_log(mem, offset, size, topic_pointers) ==
    create_log(mem, offset, size,
               [k \in 1..Len(topic_pointers) |-> deref_topic(topic_pointers[k])])

\* ----------------------------------------------------------------- bytes
RECURSIVE to_le_bytes(_, _)
to_le_bytes(v, n) ==
    IF n = 0 THEN <<>> ELSE <<v % ByteMod>> \o to_le_bytes(v \div ByteMod, n - 1)

RECURSIVE from_le_bytes(_)
from_le_bytes(bs) ==
    IF bs = <<>> THEN 0 ELSE Head(bs) + ByteMod * from_le_bytes(Tail(bs))

Reverse(bs) == [k \in 1..Len(bs) |-> bs[Len(bs) + 1 - k]]

\* llvm.intr.bswap on a word
bswap(v) == from_le_bytes(Reverse(to_le_bytes(v, WordBytes)))

\* the byte index a 32-bit GEP index denotes (sign-extended)
gep_index(offset) == IF offset >= OffsetMod \div 2 THEN offset - OffsetMod ELSE offset

\* an unaligned store of a word at memory_ptr + offset on the little-endian
\* target; bytes outside the buffer land elsewhere
store_word(mem, offset, v) ==
    LET idx == gep_index(offset)
        bs == to_le_bytes(v, WordBytes)
    IN [i \in 1..Len(mem) |->
           IF i - 1 >= idx /\ i - 1 < idx + WordBytes THEN bs[i - idx] ELSE mem[i]]

\* a store of one byte at memory_ptr + offset
store_byte(mem, offset, v) ==
    LET idx == gep_index(offset)
    IN [i \in 1..Len(mem) |-> IF i - 1 = idx THEN v ELSE mem[i]]

\* arith::maxui
maxui(a, b) == IF a > b THEN a ELSE b

\* llvm.intr.memmove of size bytes from memory_ptr + offset to memory_ptr +
\* dest_offset; bytes outside the buffer are read as junk and land elsewhere
memmove(mem, dest_offset, offset, size, junk) ==
    LET dst == gep_index(dest_offset)
        src == gep_index(offset)
    IN [i \in 1..Len(mem) |->
           IF i - 1 >= dst /\ i - 1 < dst + size
           THEN (LET j == src + (i - dst)
                 IN IF j >= 1 /\ j <= Len(mem) THEN mem[j] ELSE junk % ByteMod)
           ELSE mem[i]]

\* an unaligned load of a word from memory_ptr + offset
load_word(mem, offset, junk) ==
    LET idx == gep_index(offset)
    IN from_le_bytes([k \in 1..WordBytes |->
           IF idx + k >= 1 /\ idx + k <= Len(mem) THEN mem[idx + k] ELSE junk % ByteMod])

\* ------------------------------------------------------ memory expansion
round_up_32(size) ==
    (((size + WordBytes - 1) % OffsetMod) \div WordBytes) * WordBytes

\* words^2 / 512 + 3 * words
compute_memory_cost(size) ==
    LET words == (size + WordBytes - 1) \div WordBytes
    IN (words * words) \div 512 + 3 * words

\* the memory-expansion helper: the state after its blocks, flag telling
\* whether control reaches finish_block (else the revert trampoline)
extend_memory(g, size, mem, required_size, fixed_gas, reserve_ok) ==
    LET rounded == round_up_32(required_size)
    IN IF size < rounded
       THEN LET dynamic_gas == compute_memory_cost(rounded) - compute_memory_cost(size)
                gas_flag == consume_gas_as_value(g, trunc_gas(dynamic_gas + fixed_gas))
                grown == extend_memory_syscall(mem, rounded, reserve_ok)
            IN [flag |-> gas_flag.flag /\ ~grown.null, gas |-> gas_flag.gas,
                memory_size |-> IF grown.null THEN size ELSE rounded,
                memory |-> grown.memory, null |-> grown.null]
       ELSE LET gas_flag == consume_gas(g, fixed_gas)
            IN [flag |-> gas_flag.flag, gas |-> gas_flag.gas,
                memory_size |-> size, memory |-> mem, null |-> FALSE]

\* where the buffer is once the helper has run: a resize that makes it
\* longer may move it
Relocations(em) == IF Len(em.memory) > Len(memory) THEN {buffer, buffer + 1} ELSE {buffer}

\* the helper stores the pointer the syscall returned in MEMORY_PTR_GLOBAL
StoredPointer(em, address) == IF em.memory_size > memory_size THEN address ELSE memory_ptr

\* the pointer taken before the helper ran
memory_access_pointer_early(earlier, later) == earlier

\* llvm::load of MEMORY_PTR_GLOBAL in memory_access_block, the block the
\* helper branches to when it is done
memory_access_pointer(earlier, later) == later

\* the pointers after the helper; accessed tells whether the operation goes
\* on to dereference the one it loads
MemoryPointers(em, accessed) ==
    \E address \in Relocations(em) :
        /\ buffer' = address
        /\ memory_ptr' = StoredPointer(em, address)
        /\ dangling' = (dangling \/ (accessed /\ memory_access_pointer(memory_ptr, memory_ptr') # buffer'))

\* may the reservation fail: only when the buffer has to grow
ReserveOutcomes(required_size) ==
    IF memory_size < round_up_32(required_size) /\ round_up_32(required_size) > Len(memory)
    THEN {TRUE, FALSE} ELSE {TRUE}

\* 375 * nth + 8 * size, in the gas register's width
compute_log_dynamic_gas(nth, size) == trunc_gas(gas_cost("Log") * nth + 8 * size)

\* ------------------------------------------------------ control transfer
\* the operation's exit block is reached: the next boundary
Continue(next, st, g) ==
    /\ ip' = next
    /\ exit_code' = NONE
    /\ stack_slots' = st.slots
    /\ stack_ptr' = st.ptr
    /\ oob' = st.oob
    /\ gas_counter' = g
    /\ prev' = Boundary
    /\ UNCHANGED inputs

\* func.return of code from the current block
ReturnCode(code, st, g) ==
    /\ ip' = ip
    /\ exit_code' = code
    /\ stack_slots' = st.slots
    /\ stack_ptr' = st.ptr
    /\ oob' = st.oob
    /\ gas_counter' = g
    /\ prev' = Boundary
    /\ UNCHANGED inputs

\* the revert trampoline: returns the constant REVERT_EXIT_CODE
revert_block(st, g) == ReturnCode(REVERT_EXIT_CODE, st, g)

\* OperationCtx jump table: the index of the JUMPDEST registered under pc, 0 if none
jumptable(prog, pc) ==
    LET hits == {i \in DOMAIN prog : prog[i].op = "Jumpdest" /\ prog[i].pc = pc}
    IN IF hits = {} THEN 0 ELSE CHOOSE i \in hits : TRUE

\* branch to the jump-table block with pc as its argument
add_jump_op(pc, st, g) ==
    LET target == jumptable(program, pc)
    IN IF target # 0 THEN Continue(target, st, g) ELSE revert_block(st, g)

\* ------------------------------------------------------------- emitters
\* arith::addi, arith::subi, arith::muli on (lhs, rhs)
BinaryResult(name, lhs, rhs) ==
    CASE name = "Add" -> addi(lhs, rhs)
      [] name = "Sub" -> subi(lhs, rhs)
      [] name = "Mul" -> muli(lhs, rhs)

\* math.ipowi for a power that is not negative: the result is multiplied by
\* the base for every set bit of the power, the base squared in between
RECURSIVE ipowi_loop(_, _)
ipowi_loop(b, p) ==
    IF p = 0 THEN 1
    ELSE CHOOSE r \in {IF p % 2 = 1 THEN muli(b, rest) ELSE rest :
                            rest \in {ipowi_loop(sq, p \div 2) : sq \in {muli(b, b)}}} : TRUE

\* math.ipowi(base, power) on signed words: a negative power of 1 is 1, of
\* -1 is 1 or -1, of 0 is a division by zero, of any other base is 0
ipowi(base, power, undefined) ==
    IF power = 0 THEN 1
    ELSE IF word_signed(power) < 0
         THEN CASE base = 0 -> undefined
                [] base = 1 -> 1
                [] base = WordMod - 1 -> IF power % 2 = 1 THEN WordMod - 1 ELSE 1
                [] OTHER -> 0
         ELSE ipowi_loop(base, power)

\* guard on two operands and the static cost, pop lhs then rhs, push
\* ipowi(rhs, lhs)
codegen_exp ==
    /\ Running /\ CurOp.op = "Exp"
    /\ \E junk \in Uninit(ReadsGarbage(2)), undefined \in Garbage :
        LET flag == check_stack_has_at_least(Stack, 2)
            gas_flag == consume_gas(gas_counter, gas_cost("Exp"))
        IN IF gas_flag.flag /\ flag
           THEN LET lhs == stack_pop(Stack, junk)
                    rhs == stack_pop(lhs.st, junk)
                IN Continue(ip + 1,
                            stack_push(rhs.st, ipowi(rhs.value, lhs.value, undefined)),
                            gas_flag.gas)
           ELSE revert_block(Stack, gas_flag.gas)
    /\ UNCHANGED <<memory_size, host, pointers>>

\* the shape of codegen_add, codegen_sub, codegen_mul: guard on two
\* operands and the static cost, pop lhs then rhs, push the result
BinaryOp(name, cost) ==
    /\ Running /\ CurOp.op = name
    /\ \E junk \in Uninit(ReadsGarbage(2)) :
        LET flag == check_stack_has_at_least(Stack, 2)
            gas_flag == consume_gas(gas_counter, cost)
        IN IF gas_flag.flag /\ flag
           THEN LET lhs == stack_pop(Stack, junk)
                    rhs == stack_pop(lhs.st, junk)
                IN Continue(ip + 1,
                            stack_push(rhs.st, BinaryResult(name, lhs.value, rhs.value)),
                            gas_flag.gas)
           ELSE revert_block(Stack, gas_flag.gas)
    /\ UNCHANGED <<memory_size, host, pointers>>

codegen_add == BinaryOp("Add", gas_cost("Add"))

codegen_sub == BinaryOp("Sub", gas_cost("Sub"))

codegen_mul == BinaryOp("Mul", gas_cost("Mul"))

\* what the den_not_zero block of codegen_div, codegen_sdiv, codegen_mod and
\* codegen_smod may push
DivResults(name, num, den) ==
    CASE name = "Div" -> {divui(num, den)}
      [] name = "Sdiv" -> sdiv(num, den)
      [] name = "Mod" -> {remui(num, den)}
      [] name = "SMod" -> srem(num, den)

\* the shape of codegen_div, codegen_sdiv, codegen_mod, codegen_smod: guard
\* on two operands and the static cost, pop num then den, push 0 from the
\* den_zero block or the result from the den_not_zero block
DivOp(name) ==
    /\ Running /\ CurOp.op = name
    /\ \E junk \in Uninit(ReadsGarbage(2)) :
        LET flag == check_stack_has_at_least(Stack, 2)
            gas_flag == consume_gas(gas_counter, gas_cost(name))
        IN IF gas_flag.flag /\ flag
           THEN LET num == stack_pop(Stack, junk)
                    den == stack_pop(num.st, junk)
                IN IF check_if_zero(den.value)
                   THEN Continue(ip + 1, stack_push(den.st, 0), gas_flag.gas)
                   ELSE \E result \in DivResults(name, num.value, den.value) :
                            Continue(ip + 1, stack_push(den.st, result), gas_flag.gas)
           ELSE revert_block(Stack, gas_flag.gas)
    /\ UNCHANGED <<memory_size, host, pointers>>

codegen_div == DivOp("Div")

codegen_sdiv == DivOp("Sdiv")

codegen_mod == DivOp("Mod")

codegen_smod == DivOp("SMod")

\* the den_not_zero block of codegen_addmod and codegen_mulmod
ModularResult(name, a, b, den) ==
    CASE name = "Addmod" -> trunc_word(remui(addi_wide(a, b), den))
      [] name = "Mulmod" -> trunc_word(remui_wide(muli_wide(a, b), den))

\* the shape of codegen_addmod, codegen_mulmod: guard on three operands and
\* the static cost, pop a, b, den, push 0 or the reduced result
ModularOp(name) ==
    /\ Running /\ CurOp.op = name
    /\ \E junk \in Uninit(ReadsGarbage(3)) :
        LET flag == check_stack_has_at_least(Stack, 3)
            gas_flag == consume_gas(gas_counter, gas_cost(name))
        IN IF gas_flag.flag /\ flag
           THEN LET a == stack_pop(Stack, junk)
                    b == stack_pop(a.st, junk)
                    den == stack_pop(b.st, junk)
                IN IF check_if_zero(den.value)
                   THEN Continue(ip + 1, stack_push(den.st, 0), gas_flag.gas)
                   ELSE Continue(ip + 1,
                                 stack_push(den.st,
                                            ModularResult(name, a.value, b.value, den.value)),
                                 gas_flag.gas)
           ELSE revert_block(Stack, gas_flag.gas)
    /\ UNCHANGED <<memory_size, host, pointers>>

codegen_addmod == ModularOp("Addmod")

codegen_mulmod == ModularOp("Mulmod")

\* the shape of codegen_lt, codegen_gt, codegen_slt, codegen_sgt, codegen_eq:
\* guard on two operands and the static cost, pop twice, compare, push the
\* 1-bit result as it is; codegen_gt names the first popped rhs, the others lhs
CompareOp(name, predicate, rhs_first) ==
    /\ Running /\ CurOp.op = name
    /\ \E junk \in Uninit(ReadsGarbage(2)) :
        LET flag == check_stack_has_at_least(Stack, 2)
            gas_flag == consume_gas(gas_counter, gas_cost(name))
        IN IF gas_flag.flag /\ flag
           THEN LET first == stack_pop(Stack, junk)
                    second == stack_pop(first.st, junk)
                    lhs == IF rhs_first THEN second.value ELSE first.value
                    rhs == IF rhs_first THEN first.value ELSE second.value
                IN Continue(ip + 1,
                            stack_push_i1(second.st, cmpi(predicate, lhs, rhs), junk),
                            gas_flag.gas)
           ELSE revert_block(Stack, gas_flag.gas)
    /\ UNCHANGED <<memory_size, host, pointers>>

codegen_lt == CompareOp("Lt", "Ult", FALSE)

codegen_gt == CompareOp("Gt", "Ugt", TRUE)

codegen_slt == CompareOp("Slt", "Slt", FALSE)

codegen_sgt == CompareOp("Sgt", "Sgt", FALSE)

codegen_eq == CompareOp("Eq", "Eq", FALSE)

\* codegen_iszero: guard on one operand and the static cost, pop, compare
\* with 0, extend the bit to a word, push
codegen_iszero ==
    /\ Running /\ CurOp.op = "IsZero"
    /\ \E junk \in Uninit(ReadsGarbage(1)) :
        LET flag == check_stack_has_at_least(Stack, 1)
            gas_flag == consume_gas(gas_counter, gas_cost("IsZero"))
        IN IF gas_flag.flag /\ flag
           THEN LET value == stack_pop(Stack, junk)
                IN Continue(ip + 1,
                            stack_push(value.st, extui(cmpi("Eq", value.value, 0))),
                            gas_flag.gas)
           ELSE revert_block(Stack, gas_flag.gas)
    /\ UNCHANGED <<memory_size, host, pointers>>

\* the shape of codegen_shr, codegen_shl: guard on two operands and the
\* static cost, pop shift then value, push the shifted value from the block
\* for shift < 255 and the constant 0 from the other one
ShiftResult(name, value, shift) ==
    CASE name = "Shr" -> shrui(value, shift)
      [] name = "Shl" -> shli(value, shift)

ShiftOp(name) ==
    /\ Running /\ CurOp.op = name
    /\ \E junk \in Uninit(ReadsGarbage(2)) :
        LET flag == check_stack_has_at_least(Stack, 2)
            gas_flag == consume_gas(gas_counter, gas_cost(name))
        IN IF gas_flag.flag /\ flag
           THEN LET shift == stack_pop(Stack, junk)
                    value == stack_pop(shift.st, junk)
                IN IF compare_values("Ult", shift.value, value_255)
                   THEN Continue(ip + 1,
                                 stack_push(value.st,
                                            ShiftResult(name, value.value, shift.value)),
                                 gas_flag.gas)
                   ELSE Continue(ip + 1, stack_push(value.st, 0), gas_flag.gas)
           ELSE revert_block(Stack, gas_flag.gas)
    /\ UNCHANGED <<memory_size, host, pointers>>

codegen_shr == ShiftOp("Shr")

codegen_shl == ShiftOp("Shl")

\* codegen_sar: guard on two operands and the static cost, pop shift then
\* value, cut the shift to 255, push the arithmetic shift
codegen_sar ==
    /\ Running /\ CurOp.op = "Sar"
    /\ \E junk \in Uninit(ReadsGarbage(2)) :
        LET flag == check_stack_has_at_least(Stack, 2)
            gas_flag == consume_gas(gas_counter, gas_cost("Sar"))
        IN IF gas_flag.flag /\ flag
           THEN LET shift == stack_pop(Stack, junk)
                    value == stack_pop(shift.st, junk)
                IN Continue(ip + 1,
                            stack_push(value.st,
                                       shrsi(value.value, minui(shift.value, max_shift))),
                            gas_flag.gas)
           ELSE revert_block(Stack, gas_flag.gas)
    /\ UNCHANGED <<memory_size, host, pointers>>

\* codegen_signextend: guard on two operands and the static cost, pop
\* byte_size then value_to_extend, cut byte_size to 31, shift the byte's sign
\* bit to the top and back down arithmetically, push
codegen_signextend ==
    /\ Running /\ CurOp.op = "SignExtend"
    /\ \E junk \in Uninit(ReadsGarbage(2)) :
        LET flag == check_stack_has_at_least(Stack, 2)
            gas_flag == consume_gas(gas_counter, gas_cost("SignExtend"))
        IN IF gas_flag.flag /\ flag
           THEN LET byte_size == stack_pop(Stack, junk)
                    value_to_extend == stack_pop(byte_size.st, junk)
                    shift == bits_to_shift(minui(byte_size.value, max_byte_size))
                    left_shifted_value == shli(value_to_extend.value, shift)
                IN Continue(ip + 1,
                            stack_push(value_to_extend.st, shrsi(left_shifted_value, shift)),
                            gas_flag.gas)
           ELSE revert_block(Stack, gas_flag.gas)
    /\ UNCHANGED <<memory_size, host, pointers>>

\* codegen_byte: guard on two operands and the static cost, pop offset then
\* value, push 0 from out_of_bounds_block when offset * 8 > 31 * 8, else
\* the byte the right shift by 31 * 8 - offset * 8 brings down
codegen_byte ==
    /\ Running /\ CurOp.op = "Byte"
    /\ \E junk \in Uninit(ReadsGarbage(2)) :
        LET flag == check_stack_has_at_least(Stack, 2)
            gas_flag == consume_gas(gas_counter, gas_cost("Byte"))
        IN IF gas_flag.flag /\ flag
           THEN LET offset == stack_pop(Stack, junk)
                    value == stack_pop(offset.st, junk)
                    offset_in_bits == muli(offset.value, BITS_PER_BYTE)
                    is_offset_out_of_bounds ==
                        cmpi("Ugt", offset_in_bits, constant_max_shift_in_bits) = 1
                    shift_right_in_bits == subi(constant_max_shift_in_bits, offset_in_bits)
                IN IF is_offset_out_of_bounds
                   THEN Continue(ip + 1, stack_push(value.st, 0), gas_flag.gas)
                   ELSE Continue(ip + 1,
                                 stack_push(value.st,
                                            andi_mask(shrui(value.value, shift_right_in_bits))),
                                 gas_flag.gas)
           ELSE revert_block(Stack, gas_flag.gas)
    /\ UNCHANGED <<memory_size, host, pointers>>

\* the shape of codegen_push, codegen_pc, codegen_codesize, codegen_msize,
\* codegen_gas: guard on one free slot and the static cost, push the value
PushOp(cost, value) ==
    LET flag == check_stack_has_space_for(Stack, 1)
        gas_flag == consume_gas(gas_counter, cost)
    IN /\ IF gas_flag.flag /\ flag
          THEN Continue(ip + 1, stack_push(Stack, value), gas_flag.gas)
          ELSE revert_block(Stack, gas_flag.gas)
       /\ UNCHANGED <<memory_size, host, pointers>>

codegen_push ==
    /\ Running /\ CurOp.op \in {"Push0", "Push"}
    /\ IF CurOp.op = "Push0"
       THEN PushOp(gas_cost("Push0"), 0)
       ELSE PushOp(gas_cost("Push"), CurOp.arg)

codegen_pc ==
    /\ Running /\ CurOp.op = "PC"
    /\ PushOp(gas_cost("PC"), CurOp.pc % WordMod)

codegen_codesize ==
    /\ Running /\ CurOp.op = "Codesize"
    /\ PushOp(gas_cost("Codesize"), code_size(program) % WordMod)

\* get_remaining_gas: the register after this operation's charge
codegen_gas ==
    /\ Running /\ CurOp.op = "Gas"
    /\ PushOp(gas_cost("Gas"), consume_gas(gas_counter, gas_cost("Gas")).gas)

\* MSIZE counting words
codegen_msize_words ==
    /\ Running /\ CurOp.op = "Msize"
    /\ PushOp(gas_cost("Msize"), memory_size \div WordBytes)

codegen_msize ==
    /\ Running /\ CurOp.op = "Msize"
    /\ PushOp(gas_cost("Msize"), memory_size)

\* no stack guard: the gas guard alone decides
codegen_calldatasize ==
    /\ Running /\ CurOp.op = "CallDataSize"
    /\ LET gas_flag == consume_gas(gas_counter, gas_cost("CallDataSize"))
       IN IF gas_flag.flag
          THEN Continue(ip + 1, stack_push(Stack, Len(calldata)), gas_flag.gas)
          ELSE revert_block(Stack, gas_flag.gas)
    /\ UNCHANGED <<memory_size, host, pointers>>

codegen_pop ==
    /\ Running /\ CurOp.op = "Pop"
    /\ \E junk \in Uninit(ReadsGarbage(1)) :
        LET flag == check_stack_has_at_least(Stack, 1)
            gas_flag == consume_gas(gas_counter, gas_cost("Pop"))
        IN IF gas_flag.flag /\ flag
           THEN Continue(ip + 1, stack_pop(Stack, junk).st, gas_flag.gas)
           ELSE revert_block(Stack, gas_flag.gas)
    /\ UNCHANGED <<memory_size, host, pointers>>

codegen_dup ==
    /\ Running /\ CurOp.op = "Dup"
    /\ \E junk \in Uninit(ReadsGarbage(CurOp.arg)) :
        LET nth == CurOp.arg
            flag == check_stack_has_at_least(Stack, nth)
            gas_flag == consume_gas(gas_counter, gas_cost("Dup"))
        IN IF gas_flag.flag /\ flag
           THEN Continue(ip + 1, stack_push(Stack, get_nth_from_stack(Stack, nth, junk)),
                         gas_flag.gas)
           ELSE revert_block(Stack, gas_flag.gas)
    /\ UNCHANGED <<memory_size, host, pointers>>

\* codegen_swap with the guard of DUPn: nth items are enough
codegen_swap_short ==
    /\ Running /\ CurOp.op = "Swap"
    /\ \E junk \in Uninit(ReadsGarbage(CurOp.arg + 1)) :
        LET nth == CurOp.arg
            flag == check_stack_has_at_least(Stack, nth)
            gas_flag == consume_gas(gas_counter, gas_cost("Swap"))
        IN IF gas_flag.flag /\ flag
           THEN Continue(ip + 1, swap_stack_elements(Stack, 1, nth + 1, junk), gas_flag.gas)
           ELSE revert_block(Stack, gas_flag.gas)
    /\ UNCHANGED <<memory_size, host, pointers>>

codegen_swap ==
    /\ Running /\ CurOp.op = "Swap"
    /\ \E junk \in Uninit(ReadsGarbage(CurOp.arg + 1)) :
        LET nth == CurOp.arg
            flag == check_stack_has_at_least(Stack, nth + 1)
            gas_flag == consume_gas(gas_counter, gas_cost("Swap"))
        IN IF gas_flag.flag /\ flag
           THEN Continue(ip + 1, swap_stack_elements(Stack, 1, nth + 1, junk), gas_flag.gas)
           ELSE revert_block(Stack, gas_flag.gas)
    /\ UNCHANGED <<memory_size, host, pointers>>

codegen_jumpdest ==
    /\ Running /\ CurOp.op = "Jumpdest"
    /\ LET gas_flag == consume_gas(gas_counter, gas_cost("Jumpdest"))
       IN IF gas_flag.flag
          THEN Continue(ip + 1, Stack, gas_flag.gas)
          ELSE revert_block(Stack, gas_flag.gas)
    /\ UNCHANGED <<memory_size, host, pointers>>

codegen_jump ==
    /\ Running /\ CurOp.op = "Jump"
    /\ \E junk \in Uninit(ReadsGarbage(1)) :
        LET flag == check_stack_has_at_least(Stack, 1)
            gas_flag == consume_gas(gas_counter, gas_cost("Jump"))
        IN IF gas_flag.flag /\ flag
           THEN LET pc == stack_pop(Stack, junk)
                IN add_jump_op(pc.value, pc.st, gas_flag.gas)
           ELSE revert_block(Stack, gas_flag.gas)
    /\ UNCHANGED <<memory_size, host, pointers>>

codegen_jumpi ==
    /\ Running /\ CurOp.op = "Jumpi"
    /\ \E junk \in Uninit(ReadsGarbage(2)) :
        LET flag == check_stack_has_at_least(Stack, 2)
            gas_flag == consume_gas(gas_counter, gas_cost("Jumpi"))
        IN IF gas_flag.flag /\ flag
           THEN LET pc == stack_pop(Stack, junk)
                    condition == stack_pop(pc.st, junk)
                IN IF condition.value # 0
                   THEN add_jump_op(pc.value, condition.st, gas_flag.gas)
                   ELSE Continue(ip + 1, condition.st, gas_flag.gas)
           ELSE revert_block(Stack, gas_flag.gas)
    /\ UNCHANGED <<memory_size, host, pointers>>

\* offset_bad_block pushes 0; offset_ok_block zeroes the slot the offset was
\* popped from, copies min(calldata_size - offset, 32) bytes of the calldata
\* to its start, moves the top over it, and swaps its bytes
codegen_calldataload ==
    /\ Running /\ CurOp.op = "CalldataLoad"
    /\ \E junk \in Uninit(ReadsGarbage(1)) :
        LET flag == check_stack_has_at_least(Stack, 1)
            gas_flag == consume_gas(gas_counter, gas_cost("CalldataLoad"))
        IN IF gas_flag.flag /\ flag
           THEN LET offset == stack_pop(Stack, junk)
                    calldata_size == get_calldata_size(calldata)
                IN IF offset.value < calldata_size
                   THEN LET len == minui(subi(calldata_size, offset.value), WordBytes)
                            zeroed == to_le_bytes(0, WordBytes)
                            copied == memcpy(zeroed, calldata, offset.value, len)
                            moved == stack_push(offset.st, from_le_bytes(copied))
                            calldata_slice == stack_pop(moved, junk)
                            read_past == offset.value + len > Len(calldata)
                        IN Continue(ip + 1,
                                    stack_push([calldata_slice.st EXCEPT !.oob = @ \/ read_past],
                                               bswap(calldata_slice.value)),
                                    gas_flag.gas)
                   ELSE Continue(ip + 1, stack_push(offset.st, 0), gas_flag.gas)
           ELSE revert_block(Stack, gas_flag.gas)
    /\ UNCHANGED <<memory_size, host, pointers>>

\* pops the operation made before a second guard failed stay made
RevertAfter(st, em) ==
    /\ revert_block(st, em.gas)
    /\ memory_size' = em.memory_size
    /\ memory' = em.memory
    /\ reserve_failed' = em.null
    /\ MemoryPointers(em, FALSE)
    /\ UNCHANGED <<return_data, gas_remaining, exit_status, logs>>

codegen_mstore ==
    /\ Running /\ CurOp.op = "Mstore"
    /\ IF ~check_stack_has_at_least(Stack, 2)
       THEN revert_block(Stack, gas_counter) /\ UNCHANGED <<memory_size, host, pointers>>
       ELSE \E junk \in Uninit(ReadsGarbage(2)) :
            LET offset_u256 == stack_pop(Stack, junk)
                value == stack_pop(offset_u256.st, junk)
                offset == trunc_offset(offset_u256.value)
                required_size == trunc_offset(offset + WordBytes)
            IN \E reserve_ok \in ReserveOutcomes(required_size) :
               LET em == extend_memory(gas_counter, memory_size, memory, required_size,
                                       gas_cost("Mstore"), reserve_ok)
                   st == value.st
               IN IF em.flag
                  THEN /\ Continue(ip + 1,
                                   [st EXCEPT !.oob = @ \/ ~InMemory(em.memory,
                                                         gep_index(offset), WordBytes)],
                                   em.gas)
                       /\ memory_size' = em.memory_size
                       /\ memory' = store_word(em.memory, offset, bswap(value.value))
                       /\ MemoryPointers(em, TRUE)
                       /\ UNCHANGED <<return_data, gas_remaining, exit_status, logs, reserve_failed>>
                  ELSE RevertAfter(st, em)

\* as codegen_mstore, for one byte: the value cut to its lowest byte
codegen_mstore8 ==
    /\ Running /\ CurOp.op = "Mstore8"
    /\ IF ~check_stack_has_at_least(Stack, 2)
       THEN revert_block(Stack, gas_counter) /\ UNCHANGED <<memory_size, host, pointers>>
       ELSE \E junk \in Uninit(ReadsGarbage(2)) :
            LET offset_u256 == stack_pop(Stack, junk)
                value == stack_pop(offset_u256.st, junk)
                offset == trunc_offset(offset_u256.value)
                required_size == trunc_offset(offset + 1)
            IN \E reserve_ok \in ReserveOutcomes(required_size) :
               LET em == extend_memory(gas_counter, memory_size, memory, required_size,
                                       gas_cost("Mstore8"), reserve_ok)
                   st == value.st
               IN IF em.flag
                  THEN /\ Continue(ip + 1,
                                   [st EXCEPT !.oob = @ \/ ~InMemory(em.memory,
                                                         gep_index(offset), 1)],
                                   em.gas)
                       /\ memory_size' = em.memory_size
                       /\ memory' = store_byte(em.memory, offset, value.value % ByteMod)
                       /\ MemoryPointers(em, TRUE)
                       /\ UNCHANGED <<return_data, gas_remaining, exit_status, logs, reserve_failed>>
                  ELSE RevertAfter(st, em)

\* pops dest_offset, offset, size; extends the memory to the larger of the
\* two ends, then moves the bytes
codegen_mcopy ==
    /\ Running /\ CurOp.op = "Mcopy"
    /\ IF ~check_stack_has_at_least(Stack, 3)
       THEN revert_block(Stack, gas_counter) /\ UNCHANGED <<memory_size, host, pointers>>
       ELSE \E junk \in Uninit(ReadsGarbage(3)) :
            LET dest_u256 == stack_pop(Stack, junk)
                offset_u256 == stack_pop(dest_u256.st, junk)
                size_u256 == stack_pop(offset_u256.st, junk)
                offset == trunc_offset(offset_u256.value)
                dest_offset == trunc_offset(dest_u256.value)
                size == trunc_offset(size_u256.value)
                src_required_size == trunc_offset(offset + size)
                dest_required_size == trunc_offset(dest_offset + size)
                required_size == maxui(src_required_size, dest_required_size)
                st == size_u256.st
            IN \E reserve_ok \in ReserveOutcomes(required_size) :
               LET em == extend_memory(gas_counter, memory_size, memory, required_size,
                                       gas_cost("Mcopy"), reserve_ok)
                   inside == \/ size = 0
                             \/ /\ InMemory(em.memory, gep_index(offset), size)
                                /\ InMemory(em.memory, gep_index(dest_offset), size)
               IN IF em.flag
                  THEN /\ \E outside \in Uninit(~inside) :
                            /\ Continue(ip + 1, [st EXCEPT !.oob = @ \/ ~inside], em.gas)
                            /\ memory' = memmove(em.memory, dest_offset, offset, size, outside)
                       /\ memory_size' = em.memory_size
                       /\ MemoryPointers(em, size # 0)
                       /\ UNCHANGED <<return_data, gas_remaining, exit_status, logs, reserve_failed>>
                  ELSE RevertAfter(st, em)

codegen_mload ==
    /\ Running /\ CurOp.op = "Mload"
    /\ IF ~check_stack_has_at_least(Stack, 1)
       THEN revert_block(Stack, gas_counter) /\ UNCHANGED <<memory_size, host, pointers>>
       ELSE \E junk \in Uninit(ReadsGarbage(1)) :
            LET offset_u256 == stack_pop(Stack, junk)
                offset == trunc_offset(offset_u256.value)
                required_size == trunc_offset(offset + WordBytes)
                st == offset_u256.st
            IN \E reserve_ok \in ReserveOutcomes(required_size) :
               LET em == extend_memory(gas_counter, memory_size, memory, required_size,
                                       gas_cost("Mload"), reserve_ok)
                   inside == InMemory(em.memory, gep_index(offset), WordBytes)
               IN IF em.flag
                  THEN /\ \E outside \in Uninit(~inside) :
                            Continue(ip + 1,
                                     stack_push([st EXCEPT !.oob = @ \/ ~inside],
                                                bswap(load_word(em.memory, offset, outside))),
                                     em.gas)
                       /\ memory_size' = em.memory_size
                       /\ memory' = em.memory
                       /\ MemoryPointers(em, TRUE)
                       /\ UNCHANGED <<return_data, gas_remaining, exit_status, logs, reserve_failed>>
                  ELSE RevertAfter(st, em)

RECURSIVE PopTopics(_, _, _)
PopTopics(st, nth, junk) ==
    IF nth = 0 THEN [topics |-> <<>>, st |-> st]
    ELSE LET topic == stack_pop(st, junk)
         IN CHOOSE popped \in
                {[topics |-> <<allocate_and_store_value(topic.value)>> \o rest.topics,
                  st |-> rest.st] : rest \in {PopTopics(topic.st, nth - 1, junk)}} : TRUE

codegen_log ==
    /\ Running /\ CurOp.op = "Log"
    /\ LET nth == CurOp.arg
       IN IF ~check_stack_has_at_least(Stack, 2 + nth)
          THEN revert_block(Stack, gas_counter) /\ UNCHANGED <<memory_size, host, pointers>>
          ELSE \E junk \in Uninit(ReadsGarbage(2 + nth)) :
               LET offset_u256 == stack_pop(Stack, junk)
                   size_u256 == stack_pop(offset_u256.st, junk)
                   offset == trunc_offset(offset_u256.value)
                   size == trunc_offset(size_u256.value)
                   required_size == trunc_offset(offset + size)
                   dynamic_gas == compute_log_dynamic_gas(nth, size_u256.value)
                   \* the flag of this charge is not used
                   charged == consume_gas_as_value(gas_counter, dynamic_gas).gas
               IN \E reserve_ok \in ReserveOutcomes(required_size) :
                  LET em == extend_memory(charged, memory_size, memory, required_size,
                                          gas_cost("Log"), reserve_ok)
                      popped == PopTopics(size_u256.st, nth, junk)
                  IN IF em.flag
                     THEN /\ memory_size' = em.memory_size
                          /\ memory' = em.memory
                          /\ MemoryPointers(em, FALSE)
                          /\ UNCHANGED <<return_data, gas_remaining, exit_status, reserve_failed>>
                          /\ IF InMemory(em.memory, offset, size)
                             THEN /\ Continue(ip + 1, popped.st, em.gas)
                                  /\ logs' = Kept(logs, append_log(em.memory, offset, size,
                                                                   popped.topics))
                             ELSE /\ ReturnCode(PANICKED, [popped.st EXCEPT !.oob = TRUE],
                                                em.gas)
                                  /\ UNCHANGED logs
                     ELSE RevertAfter(size_u256.st, em)

\* return_result_from_stack: pop offset and size, make the range exist,
\* record it with the gas left and the reason code, return the reason code
return_result_from_stack(reason_code) ==
    \E junk \in Uninit(ReadsGarbage(2)) :
        LET offset_u256 == stack_pop(Stack, junk)
            size_u256 == stack_pop(offset_u256.st, junk)
            offset == trunc_offset(offset_u256.value)
            size == trunc_offset(size_u256.value)
            required_size == trunc_offset(offset + size)
            st == size_u256.st
        IN \E reserve_ok \in ReserveOutcomes(required_size) :
           LET em == extend_memory(gas_counter, memory_size, memory, required_size,
                                   0, reserve_ok)
           IN IF em.flag
              THEN /\ write_result(offset, size, em.gas, to_u8(reason_code))
                   /\ ReturnCode(to_u8(reason_code), st, em.gas)
                   /\ memory_size' = em.memory_size
                   /\ memory' = em.memory
                   /\ MemoryPointers(em, FALSE)
                   /\ UNCHANGED <<logs, reserve_failed>>
              ELSE RevertAfter(st, em)

codegen_return ==
    /\ Running /\ CurOp.op = "Return"
    /\ IF check_stack_has_at_least(Stack, 2)
       THEN return_result_from_stack("Return")
       ELSE revert_block(Stack, gas_counter) /\ UNCHANGED <<memory_size, host, pointers>>

codegen_revert ==
    /\ Running /\ CurOp.op = "Revert"
    /\ IF check_stack_has_at_least(Stack, 2)
       THEN return_result_from_stack("Revert")
       ELSE revert_block(Stack, gas_counter) /\ UNCHANGED <<memory_size, host, pointers>>

\* return_empty_result: record an empty result, return the reason code
return_empty_result(reason_code) ==
    /\ write_result(0, 0, gas_counter, to_u8(reason_code))
    /\ ReturnCode(to_u8(reason_code), Stack, gas_counter)
    /\ UNCHANGED <<memory_size, memory, logs, reserve_failed, pointers>>

codegen_stop ==
    /\ Running /\ CurOp.op = "Stop"
    /\ return_empty_result("Stop")

\* --------------------------------------------------------------- programs

\* words that exercise carries, wrap-around and the narrower widths
SampleWords ==
    {0, 1, 2, 3, ByteMod - 1, ByteMod, OffsetMod + 3, GasMod, GasMod + 4,
     WordMod \div 2, WordMod - 2, WordMod - 1}

\* an item that stays below the operands
Deep == WordMod - 3

ArithPrograms ==
    {<<Push(Deep), Push(b), Push(a), Op(o), Op("Stop")>> :
        a \in SampleWords, b \in SampleWords, o \in {"Add", "Sub", "Mul"}}

DivPrograms ==
    {<<Push(Deep), Push(b), Push(a), Op(o), Op("Stop")>> :
        a \in SampleWords, b \in SampleWords, o \in {"Div", "Sdiv", "Mod", "SMod"}}

\* moduli: none, one, odd and even ones, the largest word
Moduli == {0, 1, 3, ByteMod, WordMod \div 2 + 1, WordMod - 1}

ModularPrograms ==
    {<<Push(Deep), Push(n), Push(b), Push(a), Op(o), Op("Stop")>> :
        a \in {0, 2, ByteMod - 1, WordMod \div 2, WordMod - 2, WordMod - 1},
        b \in {1, 3, GasMod + 4, WordMod \div 2, WordMod - 1},
        n \in Moduli, o \in {"Addmod", "Mulmod"}}

\* too few operands, and the operations that only push
ShortPrograms ==
    {<<Op(o), Op("Stop")>> :
        o \in {"Add", "Sub", "Mul", "Pop", "Jump", "Jumpi", "Mstore", "Mload",
               "Return", "Revert", "PC", "Gas", "Msize", "Codesize", "CallDataSize",
               "Push0", "Jumpdest", "Div", "Sdiv", "Mod", "SMod", "Addmod", "Mulmod",
               "Mstore8", "Lt", "Gt", "Slt", "Sgt", "Eq", "IsZero", "Shr", "Shl",
               "Sar", "SignExtend", "Byte"}}
    \cup {<<Push(1), Op(o), Op("Stop")>> :
        o \in {"Add", "Sub", "Mul", "Jumpi", "Mstore", "Return", "Revert", "Pop",
               "Div", "Sdiv", "Mod", "SMod", "Addmod", "Mulmod", "Mstore8",
               "Lt", "Gt", "Slt", "Sgt", "Eq", "Shr", "Shl", "Sar", "SignExtend",
               "Byte"}}
    \cup {<<Push(1), Push(2), Op(o), Op("Stop")>> : o \in {"Addmod", "Mulmod"}}
    \cup {<<Push(1), OpA(o, n), Op("Stop")>> : o \in {"Dup", "Swap"}, n \in 1..2}
    \cup {<<Push(1), Push(2), OpA(o, n), Op("Stop")>> : o \in {"Dup", "Swap"}, n \in 1..2}
    \cup {<<Push(1), OpA("Log", n), Op("Stop")>> : n \in 0..MaxTopics}
    \cup {<<Op("Gas"), Op("Msize"), Op("PC"), Op("Codesize"), Op("Pop"), Op("Stop")>>}

\* the targets tried: every pc of the short programs, pcs beyond the code,
\* and values that equal a small pc only in fewer bits
JumpTargets ==
    (0..MaxPc) \cup {OffsetMod + k : k \in 8..MaxPc} \cup {GasMod + k : k \in 8..MaxPc}
    \cup {WordMod \div 2 + k : k \in 8..MaxPc} \cup {WordMod - 1}

Conditions == {0, 1, 2, ByteMod, GasMod, WordMod \div 2, WordMod - 1}

JumpPrograms ==
    {<<Push(Deep), Push(t), Op("Jump"), Push(1), Op("Jumpdest"), Op("Stop")>> :
        t \in JumpTargets}
    \cup {<<Op("Jumpdest"), Push(Deep), Push(t), Op("Jump"), Op("Stop")>> : t \in {0, 1, 4}}
    \cup {<<Push(Deep), Op("Jumpdest"), Op("Pop"), Push(2), Push(t), Op("Jump")>> :
            t \in {2, 3, OffsetMod + 3}}
    \cup {<<Push(Deep), Push(c), Push(t), Op("Jumpi"), Push(1), Op("Jumpdest"), Op("Stop")>> :
            c \in Conditions, t \in JumpTargets}
    \cup {<<Op("Jumpdest"), Push(c), Push(0), Op("Jumpi"), Op("Stop")>> : c \in {0, 1, ByteMod}}

\* programs that store, load, log and return
MemoryPrograms ==
    {<<Push(v), Push(off), Op("Mstore"), Push(size), Push(from), Op(o), Op("Stop")>> :
        v \in {ByteMod + 2, WordMod - 2}, off \in {0, 1, WordBytes + 1},
        size \in {0, 1, WordBytes}, from \in {0, 1, 2 * WordBytes, OffsetMod},
        o \in {"Return", "Revert"}}
    \cup {<<Push(v), Push(off), Op("Mstore"), Push(off), Op("Mload"), Op("Msize"),
            Op("Stop")>> : v \in {ByteMod + 2}, off \in {0, 3}}
    \cup {<<Push(v), Push(0), Op("Mstore"), Push(Deep), Push(7), Push(9), Push(size),
            Push(off), OpA("Log", n), Op("Gas"), Op("Stop")>> :
            v \in {ByteMod + 2}, size \in {0, 1, WordBytes}, off \in {0, 1},
            n \in 0..MaxTopics}
    \cup {<<Op("Jumpdest"), Push(size), Push(0), OpA("Log", 0), Push(0), Op("Jump")>> :
            size \in {0, 1}}

\* a loop that pushes nothing: SWAP1 brings the size of its LOG2 and then
\* its jump target to the top.  The size makes the charge of the LOG2, cut
\* to the register's width, the negative of what one pass costs
PassCost ==
    5 * gas_cost("Jumpdest") + 2 * gas_cost("Swap") + gas_cost("Log")
        + 2 * LOG_BASE_GAS + gas_cost("Jump")

SpinHead == <<Push(Deep), Push(Deep), Push((GasMod - PassCost) \div 8)>>

SpinPrograms ==
    {Assemble(SpinHead \o <<Push(code_size(Assemble(SpinHead)) + 2)>>
                \o [i \in 1..5 |-> Op("Jumpdest")]
                \o <<OpA("Swap", 1), OpA("Log", 2), OpA("Swap", 1), Op("Jump")>>)}

\* MAX_STACK_SIZE pushes, then one more operation
Full == [i \in 1..MAX_STACK_SIZE |-> [op |-> "Push0", arg |-> 0, pc |-> i - 1]]

FullTails ==
    {<<Op(o), Op("Stop")>> :
        o \in {"Push0", "PC", "Gas", "Msize", "Codesize", "CallDataSize", "Pop"}}
    \cup {<<OpA("Dup", 1), Op("Stop")>>, <<Push(5), Op("Stop")>>,
          <<Op("CallDataSize"), Op("CallDataSize"), Op("Pop"), Op("Stop")>>}

FullPrograms == {Full \o AssembleAt(tail, MAX_STACK_SIZE) : tail \in FullTails}

Programs ==
    {Assemble(ops) :
        ops \in ArithPrograms \cup ShortPrograms \cup JumpPrograms \cup MemoryPrograms}

\* offsets: aligned or not, equal to a small offset once cut to the offset
\* width, and such that offset + width wraps
Offsets == {0, 1, WordBytes + 1, OffsetMod - 1, OffsetMod, OffsetMod + 1}

\* what the memory holds before the store under test
Filler == 3 * ByteMod + 4

\* a store over memory in use, then a load or a RETURN of the same range
StorePrograms ==
    {<<Push(Filler), Push(0), Op("Mstore"), Push(off), Push(w), Push(off), Op("Mstore"),
       Op("Mload"), Op("Msize"), Op("Stop")>> :
        w \in {ByteMod + 2, WordMod - 2}, off \in Offsets}
    \cup {<<Push(Filler), Push(0), Op("Mstore"), Push(WordBytes), Push(off), Push(w),
            Push(off), Op("Mstore"), Op("Return")>> :
            w \in {ByteMod + 2}, off \in {0, 1, OffsetMod}}
    \cup {<<Push(Filler), Push(0), Op("Mstore"), Push(v), Push(off), Op("Mstore8"),
            Op("Msize"), Push(1), Push(off), Op("Return")>> :
            v \in {ByteMod - 1, ByteMod + 7}, off \in Offsets \cup {WordBytes}}

\* the pushes of k different topics, the first topic pushed last
TopicPushes(k) == [i \in 1..k |-> Push(10 + k + 1 - i)]

\* sizes: small ones, one equal to 1 once cut to the offset width, and one
\* that makes 8 * size zero in the gas register
LogSizes == {0, 1, WordBytes, OffsetMod + 1, GasMod \div 8}

\* a LOG over memory in use; two different LOGs with a store between them
LogPrograms ==
    {<<Push(Filler), Push(0), Op("Mstore"), Push(Deep)>> \o TopicPushes(k)
        \o <<Push(size), Push(off), OpA("Log", k), Op("Stop")>> :
        k \in 0..MaxTopics, size \in LogSizes, off \in {0, 1, OffsetMod}}
    \cup {<<Push(Filler), Push(0), Op("Mstore"), Push(11), Push(1), Push(0), OpA("Log", 1),
            Push(ByteMod - 1), Push(0), Op("Mstore8"), Push(WordBytes), Push(0),
            OpA("Log", 0), Push(5), Push(1), Op("Mstore8"), Op("Stop")>>,
          <<Push(1), Push(1), Push(1), OpA("Log", 1), Push(1), Push(1), Op("Mstore8"),
            Push(1), Push(1), OpA("Log", 0), Op("Stop")>>}
    \cup {<<Push(Filler), Push(0), Op("Mstore"), Push(size), Push(size), OpA("Log", 0),
            Op("Stop")>> : size \in LogSizes}

\* the gas that leaves a LOG0 of one byte in LogPrograms five short
LogShortGas == LOG_BASE_GAS + 8 - 5 + 6 * gas_cost("Push") + gas_cost("Mstore")

\* loads from the calldata: inside it, across its end, at its end and beyond
LoadOffsets == (0..4) \cup {OffsetMod, OffsetMod + 1, WordMod \div 2, WordMod - 1}

CalldataPrograms ==
    {<<Push(Deep), Push(off), Op("CalldataLoad"), Op("CallDataSize"), Op("Stop")>> :
        off \in LoadOffsets}
    \cup {<<Op("CalldataLoad"), Op("Stop")>>}

\* copies of every size within memory in use and beyond it, then MSIZE
CopyPrograms ==
    {<<Push(Filler), Push(0), Op("Mstore"), Push(size), Push(src), Push(dst), Op("Mcopy"),
       Op("Msize"), Op("Stop")>> :
        size \in {0, 1, WordBytes + 1}, src \in {0, 1}, dst \in {0, 1, 2 * WordBytes + 1}}
    \cup {<<Push(1), Push(off), Op("Mstore8"), Op("Msize"), Push(1), Push(off + WordBytes),
            OpA("Log", 0), Op("Msize"), Op("Stop")>> : off \in {0, 1, WordBytes}}
    \cup {<<Op("Mcopy"), Op("Stop")>>, <<Push(1), Push(1), Op("Mcopy"), Op("Stop")>>}
    \cup {<<Push(Filler), Push(0), Op("Mstore"), Push(v), Push(v), Push(v), Op("Mcopy"),
            Op("Msize"), Op("Stop")>> : v \in {1, OffsetMod, OffsetMod + 1}}

\* the programs run with little gas and with ample gas only
\* words to compare: equal and not, of either sign, with bits above the
\* lowest byte
CompareWords == {0, 1, ByteMod + 1, WordMod \div 2, WordMod - 1}

ComparePrograms ==
    {<<Push(Deep), Push(b), Push(a), Op(o), Op("Stop")>> :
        a \in CompareWords, b \in CompareWords, o \in {"Lt", "Gt", "Slt", "Sgt", "Eq"}}
    \cup {<<Push(Deep), Push(a), Op("IsZero"), Op("Stop")>> : a \in CompareWords}

\* shifts by nothing, by a bit, by all bits but one or two, by as many bits
\* as a word has, and by more
ShiftAmounts == {0, 1, WordBits - 2, WordBits - 1, WordBits, WordBits + 1, WordMod - 1}

\* words of either sign, odd and even
ShiftValues == {1, ByteMod + 1, WordMod \div 2 - 1, WordMod \div 2, WordMod - 2, WordMod - 1}

ShiftPrograms ==
    {<<Push(Deep), Push(value), Push(shift), Op(o), Op("Stop")>> :
        value \in ShiftValues, shift \in ShiftAmounts, o \in {"Shr", "Shl", "Sar"}}

\* byte numbers: the lowest ones, the last one of a word, and beyond
ByteNumbers == {0, 1, WordBytes - 2, WordBytes - 1, WordBytes, WordMod - 1}

\* words whose bytes differ in their sign bits
ExtendValues ==
    {ByteMod \div 2 - 1, ByteMod \div 2, 3 * ByteMod + ByteMod \div 2 + 1, 5 * ByteMod + 3,
     WordMod \div 2 + 5, WordMod - 1}

SignExtendPrograms ==
    {<<Push(Deep), Push(v), Push(k), Op("SignExtend"), Op("Stop")>> :
        v \in ExtendValues, k \in ByteNumbers}

\* byte numbers whose count of bits does not fit a word
WrappingByteNumbers == {WordMod \div 8, WordMod \div 8 + 1, WordMod \div 4}

BytePrograms ==
    {<<Push(Deep), Push(v), Push(i), Op("Byte"), Op("Stop")>> :
        v \in ExtendValues, i \in ByteNumbers \cup WrappingByteNumbers}

\* bases and exponents: none, one, small ones, and words with the top bit set
ExpWords == {0, 1, 2, 3, WordBits - 1, WordMod \div 2, WordMod - 1}

ExpPrograms ==
    {<<Push(Deep), Push(b), Push(a), Op("Exp"), Op("Stop")>> :
        a \in ExpWords, b \in ExpWords}
    \cup {<<Op("Exp"), Op("Stop")>>, <<Push(1), Op("Exp"), Op("Stop")>>}

BitPrograms ==
    {Assemble(ops) :
        ops \in ComparePrograms \cup ShiftPrograms \cup SignExtendPrograms \cup BytePrograms
                \cup ExpPrograms}

\* DUPn with one item too few, with just enough and with one more than enough
DupDepths == {1, 2, 3, 16}

DupPrograms ==
    UNION {{Assemble([i \in 1..k |-> Push(i)] \o <<OpA("Dup", n), Op("Stop")>>) :
                k \in {n - 1, n, n + 1}} : n \in DupDepths}

\* SWAPn twice, with one item too few, with just enough and with one more
SwapDepths == {1, 2, 16}

SwapPrograms ==
    UNION {{Assemble([i \in 1..k |-> Push(i)]
                     \o <<OpA("Swap", n), OpA("Swap", n), Op("Stop")>>) :
                k \in {n, n + 1, n + 2}} : n \in SwapDepths}

WidePrograms ==
    {Assemble(ops) :
        ops \in DivPrograms \cup ModularPrograms \cup StorePrograms \cup LogPrograms
                \cup CalldataPrograms \cup CopyPrograms}

Calldatas == {<<>>, <<17, 34, 51>>}

\* enough gas for any of the programs to run to its end once
AmpleGas == GasMod \div 2 - 1

\* the state a boundary snapshot has before the first operation
NoBoundary ==
    [op |-> [op |-> "None", arg |-> 0, pc |-> 0], ip |-> 0, slots |-> <<>>, ptr |-> 0,
     gas |-> 0, memory_size |-> 0, memory |-> <<>>, logs |-> <<>>, oob |-> FALSE,
     buffer |-> 1,
     before |-> [op |-> "None", top |-> 0, second |-> 0, arg |-> 0, slots |-> <<>>]]

Init ==
    /\ \/ program \in Programs /\ initial_gas \in (0..MaxGas) \cup {AmpleGas}
       \/ program \in FullPrograms /\ initial_gas = AmpleGas
       \/ program \in WidePrograms /\ initial_gas \in {MaxGas \div 2, LogShortGas, AmpleGas}
       \/ program \in BitPrograms /\ initial_gas = AmpleGas
       \/ program \in DupPrograms /\ initial_gas = AmpleGas
       \/ program \in SwapPrograms /\ initial_gas = AmpleGas
       \/ program \in SpinPrograms /\ initial_gas = GasMod \div 4
    /\ calldata \in Calldatas
    /\ ip = 1
    /\ exit_code = NONE
    /\ stack_slots = <<>>
    /\ stack_ptr = 0
    /\ gas_counter = initial_gas
    /\ memory_size = 0
    /\ memory = <<>>
    /\ return_data = <<>>
    /\ gas_remaining = <<>>
    /\ exit_status = "None"
    /\ logs = <<>>
    /\ reserve_failed = FALSE
    /\ oob = FALSE
    /\ memory_ptr = 1
    /\ buffer = 1
    /\ dangling = FALSE
    /\ prev = NoBoundary

\* generate_code_for_op: one emitter per operation
Next ==
    \/ codegen_stop
    \/ codegen_push
    \/ codegen_pop
    \/ codegen_add
    \/ codegen_sub
    \/ codegen_mul
    \/ codegen_exp
    \/ codegen_div
    \/ codegen_sdiv
    \/ codegen_mod
    \/ codegen_smod
    \/ codegen_addmod
    \/ codegen_mulmod
    \/ codegen_lt
    \/ codegen_gt
    \/ codegen_slt
    \/ codegen_sgt
    \/ codegen_eq
    \/ codegen_iszero
    \/ codegen_shr
    \/ codegen_shl
    \/ codegen_sar
    \/ codegen_signextend
    \/ codegen_byte
    \/ codegen_pc
    \/ codegen_codesize
    \/ codegen_gas
    \/ codegen_msize
    \/ codegen_calldatasize
    \/ codegen_calldataload
    \/ codegen_dup
    \/ codegen_swap
    \/ codegen_jumpdest
    \/ codegen_jump
    \/ codegen_jumpi
    \/ codegen_mstore
    \/ codegen_mstore8
    \/ codegen_mload
    \/ codegen_mcopy
    \/ codegen_log
    \/ codegen_return
    \/ codegen_revert

Spec == Init /\ [][Next]_vars

\* the emitted function runs without blocking until it returns
FairSpec == Spec /\ WF_vars(Next)

\* ------------------------------------------------- the host's memory alone
\* a call of SyscallContext::extend_memory with any size, the reservation
\* succeeding or not
call_extend_memory ==
    \E new_size \in 0..MaxNewSize, reserve_ok \in BOOLEAN :
        LET grown == extend_memory_syscall(memory, new_size, reserve_ok)
        IN /\ memory' = grown.memory
           /\ reserve_failed' = grown.null
           /\ prev' = [Boundary EXCEPT !.op = [op |-> "extend_memory", arg |-> new_size,
                                               pc |-> 0]]
           /\ \E address \in (IF Len(grown.memory) > Len(memory) THEN {buffer, buffer + 1}
                                ELSE {buffer}) :
                 /\ buffer' = address
                 /\ memory_ptr' = (IF grown.null THEN 0 ELSE address)
           /\ UNCHANGED <<inputs, control, globals, return_data, gas_remaining,
                          exit_status, logs, oob, dangling>>

\* a store of a byte through the pointer the last call returned
store_through_pointer ==
    \E offset \in 0..(Len(memory) - 1) :
        /\ ~reserve_failed
        /\ memory' = store_byte(memory, offset, ByteMod - 1)
        /\ prev' = [Boundary EXCEPT !.op = [op |-> "store", arg |-> offset, pc |-> 0]]
        /\ dangling' = (dangling \/ memory_ptr # buffer)
        /\ UNCHANGED <<inputs, control, globals, return_data, gas_remaining,
                       exit_status, logs, reserve_failed, oob, memory_ptr, buffer>>

\* SyscallContext::default()
HostInit ==
    /\ program = Assemble(<<Op("Stop")>>)
    /\ calldata = <<>>
    /\ initial_gas = 0
    /\ ip = 1
    /\ exit_code = NONE
    /\ stack_slots = <<>>
    /\ stack_ptr = 0
    /\ gas_counter = 0
    /\ memory_size = 0
    /\ memory = <<>>
    /\ return_data = <<>>
    /\ gas_remaining = <<>>
    /\ exit_status = "None"
    /\ logs = <<>>
    /\ reserve_failed = FALSE
    /\ oob = FALSE
    /\ memory_ptr = 1
    /\ buffer = 1
    /\ dangling = FALSE
    /\ prev = NoBoundary

HostNext ==
    \/ call_extend_memory
    \/ store_through_pointer

HostSpec == HostInit /\ [][HostNext]_vars

\* ------------------------------------------------- the stack helpers alone
\* the items on the stack before the calls under test
MaxOriginal == 2
\* the pushes under test are 1..MaxPushes, of the values 1..MaxValue
MaxPushes == 3
MaxValue == 3

Call(name, v, i) == [op |-> name, arg |-> v, pc |-> i]

\* the original items, then n stack_push calls, then n stack_pop calls
StackScripts ==
    UNION {{[i \in 1..(m + 2 * n) |->
                IF i <= m THEN Call("stack_push", WordMod - i, i)
                ELSE IF i <= m + n THEN Call("stack_push", vs[i - m], i)
                ELSE Call("stack_pop", 0, i)] :
            vs \in [1..n -> 1..MaxValue]} : m \in 0..MaxOriginal, n \in 1..MaxPushes}

\* stack_push(context, block, value) run at the current stack
call_stack_push ==
    /\ ip <= Len(program) /\ CurOp.op = "stack_push"
    /\ LET st == stack_push(Stack, CurOp.arg)
       IN /\ stack_slots' = st.slots
          /\ stack_ptr' = st.ptr
          /\ oob' = st.oob
    /\ ip' = ip + 1
    /\ prev' = Boundary
    /\ UNCHANGED <<inputs, exit_code, gas_counter, memory_size, host, pointers>>

\* stack_pop(context, block) run at the current stack; the value it returns
\* is kept with the call
call_stack_pop ==
    /\ ip <= Len(program) /\ CurOp.op = "stack_pop"
    /\ \E junk \in Uninit(ReadsGarbage(1)) :
        LET popped == stack_pop(Stack, junk)
        IN /\ stack_slots' = popped.st.slots
           /\ stack_ptr' = popped.st.ptr
           /\ oob' = popped.st.oob
           /\ prev' = [Boundary EXCEPT !.op.arg = popped.value]
    /\ ip' = ip + 1
    /\ UNCHANGED <<inputs, exit_code, gas_counter, memory_size, host, pointers>>

StackInit ==
    /\ program \in StackScripts
    /\ calldata = <<>>
    /\ initial_gas = 0
    /\ ip = 1
    /\ exit_code = NONE
    /\ stack_slots = <<>>
    /\ stack_ptr = 0
    /\ gas_counter = 0
    /\ memory_size = 0
    /\ memory = <<>>
    /\ return_data = <<>>
    /\ gas_remaining = <<>>
    /\ exit_status = "None"
    /\ logs = <<>>
    /\ reserve_failed = FALSE
    /\ oob = FALSE
    /\ memory_ptr = 1
    /\ buffer = 1
    /\ dangling = FALSE
    /\ prev = NoBoundary

StackNext ==
    \/ call_stack_push
    \/ call_stack_pop

StackSpec == StackInit /\ [][StackNext]_vars

\* ------------------------------------------------- the exit codes alone
\* the variants of ExitStatusCode, and the values of a u8
ExitStatusCodes == {"Return", "Stop", "Revert", "Error", "Default"}
U8 == 0..(ByteMod - 1)

\* self.to_u8() on the status held
call_to_u8 ==
    /\ exit_code' = to_u8(exit_status)
    /\ prev' = [Boundary EXCEPT !.op = [op |-> "to_u8", arg |-> 0, pc |-> 0]]
    /\ UNCHANGED <<inputs, ip, globals, host, oob, pointers>>

\* ExitStatusCode::from_u8(value) on the byte held
call_from_u8 ==
    /\ exit_status' = from_u8(exit_code)
    /\ prev' = [Boundary EXCEPT !.op = [op |-> "from_u8", arg |-> exit_code, pc |-> 0]]
    /\ UNCHANGED <<inputs, control, globals, memory, return_data, gas_remaining, logs,
                   reserve_failed, oob, pointers>>

\* any status and any byte
ExitInit ==
    /\ program = Assemble(<<Op("Stop")>>)
    /\ calldata = <<>>
    /\ initial_gas = 0
    /\ ip = 1
    /\ exit_code \in U8
    /\ stack_slots = <<>>
    /\ stack_ptr = 0
    /\ gas_counter = 0
    /\ memory_size = 0
    /\ memory = <<>>
    /\ return_data = <<>>
    /\ gas_remaining = <<>>
    /\ exit_status \in ExitStatusCodes
    /\ logs = <<>>
    /\ reserve_failed = FALSE
    /\ oob = FALSE
    /\ memory_ptr = 1
    /\ buffer = 1
    /\ dangling = FALSE
    /\ prev = NoBoundary

ExitNext ==
    \/ call_to_u8
    \/ call_from_u8

ExitSpec == ExitInit /\ [][ExitNext]_vars

\* ------------------------------------------------ the space check alone
\* depths of the stack and element counts on either side of a full stack
Depths ==
    {0, 1, 2, 3, MAX_STACK_SIZE \div 2, MAX_STACK_SIZE - 3, MAX_STACK_SIZE - 2,
     MAX_STACK_SIZE - 1, MAX_STACK_SIZE}
ElementCounts ==
    {0, 1, 2, 3, MAX_STACK_SIZE \div 2 - 1, MAX_STACK_SIZE \div 2,
     MAX_STACK_SIZE \div 2 + 1, MAX_STACK_SIZE - 4, MAX_STACK_SIZE - 3,
     MAX_STACK_SIZE - 2, MAX_STACK_SIZE - 1}

\* check_stack_has_space_for(element_count) on the stack held; the flag is
\* kept in the snapshot
call_check_stack_has_space_for ==
    /\ \E element_count \in ElementCounts :
        prev' = [Boundary EXCEPT
                    !.op = [op |-> "check_stack_has_space_for", arg |-> element_count,
                            pc |-> IF check_stack_has_space_for(Stack, element_count)
                                   THEN 1 ELSE 0]]
    /\ UNCHANGED <<inputs, control, globals, host, oob, pointers>>

\* a stack of any of the depths, every slot in use written
SpaceInit ==
    /\ program = Assemble(<<Op("Stop")>>)
    /\ calldata = <<>>
    /\ initial_gas = 0
    /\ ip = 1
    /\ exit_code = NONE
    /\ stack_ptr \in Depths
    /\ stack_slots = [i \in 1..stack_ptr |-> i % WordMod]
    /\ gas_counter = 0
    /\ memory_size = 0
    /\ memory = <<>>
    /\ return_data = <<>>
    /\ gas_remaining = <<>>
    /\ exit_status = "None"
    /\ logs = <<>>
    /\ reserve_failed = FALSE
    /\ oob = FALSE
    /\ memory_ptr = 1
    /\ buffer = 1
    /\ dangling = FALSE
    /\ prev = NoBoundary

SpaceNext == call_check_stack_has_space_for

SpaceSpec == SpaceInit /\ [][SpaceNext]_vars

\* ================================================================ claims
\* what the operation that led to this state found at its boundary
Acted == prev.op.op # "None"
Last == prev.op.op

\* the items an operation needs on the stack
Needs(o) ==
    CASE o.op \in {"Add", "Sub", "Mul", "Jumpi", "Mstore", "Return", "Revert",
                   "Div", "Sdiv", "Mod", "SMod", "Mstore8",
                   "Lt", "Gt", "Slt", "Sgt", "Eq", "Shr", "Shl",
                   "Sar", "SignExtend", "Byte", "Exp"} -> 2
      [] o.op \in {"Pop", "Jump", "Mload", "CalldataLoad", "IsZero"} -> 1
      [] o.op \in {"Addmod", "Mulmod", "Mcopy"} -> 3
      [] o.op = "Dup" -> o.arg
      [] o.op = "Swap" -> o.arg + 1
      [] o.op = "Log" -> 2 + o.arg
      [] OTHER -> 0

\* the change of depth a successful operation makes
Net(o) ==
    CASE o.op \in {"Add", "Sub", "Mul", "Pop", "Jump", "Div", "Sdiv", "Mod", "SMod",
                   "Lt", "Gt", "Slt", "Sgt", "Eq", "Shr", "Shl",
                   "Sar", "SignExtend", "Byte", "Exp"} -> -1
      [] o.op \in {"Jumpi", "Mstore", "Return", "Revert", "Addmod", "Mulmod",
                   "Mstore8"} -> -2
      [] o.op = "Log" -> -(2 + o.arg)
      [] o.op = "Mcopy" -> -3
      [] o.op \in {"Push0", "Push", "PC", "Gas", "Msize", "Codesize", "CallDataSize",
                   "Dup"} -> 1
      [] OTHER -> 0

\* the least gas an operation costs
Charge(o) ==
    IF o.op \in {"Stop", "Return", "Revert", "None"} THEN 0 ELSE gas_cost(o.op)

Underflow(b) == b.ptr < Needs(b.op)
Overflow(b) == b.ptr + Net(b.op) > MAX_STACK_SIZE
GasShort(b) == b.gas < Charge(b.op)

JumpdestPcs == {program[i].pc : i \in {j \in DOMAIN program : program[j].op = "Jumpdest"}}

\* C1: at every opcode boundary the stack depth is in [0, MAX_STACK_SIZE],
\* and an operation that would take it outside ends the execution with
\* exit code 3.
C1_StackBoundSafety ==
    /\ exit_code = NONE => stack_ptr \in 0..MAX_STACK_SIZE
    /\ (Acted /\ (Underflow(prev) \/ Overflow(prev))) => exit_code = REVERT_EXIT_CODE

\* C2: an operation whose cost exceeds the gas left ends the execution with
\* exit code 3 before any of its effects on the stack, the memory or the
\* logs.
C2_GasGuardBeforeEffects ==
    (Acted /\ GasShort(prev)) =>
        /\ exit_code = REVERT_EXIT_CODE
        /\ stack_ptr = prev.ptr
        /\ stack_slots = prev.slots
        /\ memory = prev.memory
        /\ logs = prev.logs

\* C3: the gas left at a boundary is at most the gas left at the boundary
\* before it, and at most initial_gas: no operation increases it.
C3_GasMonotonic ==
    (Acted /\ exit_code = NONE) =>
        (gas_counter <= prev.gas /\ gas_counter <= initial_gas)

LogGasShort(b) ==
    /\ b.op.op = "Log" /\ ~Underflow(b)
    /\ b.gas < LOG_BASE_GAS + LOG_BASE_GAS * b.op.arg + 8 * b.slots[b.ptr - 1]

\* a jump that is taken to a pc where no JUMPDEST is
BadJump(b) ==
    /\ ~Underflow(b) /\ ~GasShort(b)
    /\ \/ b.op.op = "Jump"
       \/ b.op.op = "Jumpi" /\ b.slots[b.ptr - 1] # 0
    /\ b.slots[b.ptr] \notin JumpdestPcs

\* C5: stack underflow, stack overflow, gas underflow (static or dynamic),
\* a failed memory reservation and a jump to an unregistered pc all end
\* with exit code 3, without a call of write_result.
C5_ErrorsTakeRevertTrampoline ==
    (Acted /\ (Underflow(prev) \/ Overflow(prev) \/ GasShort(prev) \/ LogGasShort(prev)
                 \/ BadJump(prev) \/ reserve_failed)) =>
        (exit_code = REVERT_EXIT_CODE /\ exit_status = "None")

\* the operands of the last operation, where it had them
Top == prev.slots[prev.ptr]
Second == prev.slots[prev.ptr - 1]
Guarded == Acted /\ ~Underflow(prev) /\ ~GasShort(prev)
\* the slots below the n operands of the last operation are as they were
BelowKept(n) ==
    \A i \in 1..(prev.ptr - n) : i <= Len(stack_slots) /\ stack_slots[i] = prev.slots[i]

\* C6: STOP returns 1 with an empty return-data slice; RETURN(off, size)
\* returns 0 and REVERT(off, size) returns 2, having recorded through
\* write_result the slice memory[off..off+size], the gas left and the code
\* that the function returns.
C6_TerminationRecords ==
    /\ (Acted /\ Last = "Stop") =>
            /\ exit_code = Stop_u8
            /\ exit_status = "Stop"
            /\ gas_remaining = <<gas_counter>>
            /\ ~return_values_panics(memory, return_data)
            /\ return_values(memory, return_data) = <<>>
    /\ (Acted /\ Last \in {"Return", "Revert"} /\ ~Underflow(prev)
            /\ exit_code # REVERT_EXIT_CODE) =>
            /\ exit_code = (IF Last = "Return" THEN Return_u8 ELSE Revert_u8)
            /\ exit_status = Last
            /\ gas_remaining = <<gas_counter>>
            /\ Second > 0 => InMemory(memory, Top, Second)
            /\ ~return_values_panics(memory, return_data)
            /\ return_values(memory, return_data) = [k \in 1..Second |-> memory[Top + k]]

\* C7: JUMP, and JUMPI with a non-zero condition, whose popped target is not
\* the pc of a JUMPDEST end the execution with exit code 3, whatever the
\* target: beyond the code, or equal to a JUMPDEST's pc only in fewer bits.
C7_BadJumpReverts ==
    (Acted /\ BadJump(prev)) => exit_code = REVERT_EXIT_CODE

\* C8: JUMP to the pc of a JUMPDEST, before or after the JUMP, continues at
\* that JUMPDEST with only the target popped; a JUMPDEST charges its gas
\* however it was reached.
C8_JumpLandsOnJumpdest ==
    /\ (Guarded /\ Last = "Jump" /\ Top \in JumpdestPcs) =>
            /\ exit_code = NONE
            /\ program[ip].op = "Jumpdest" /\ program[ip].pc = Top
            /\ stack_ptr = prev.ptr - 1
            /\ BelowKept(1)
            /\ gas_counter = prev.gas - gas_cost("Jump")
            /\ memory = prev.memory /\ logs = prev.logs
    /\ (Guarded /\ Last = "Jumpdest") =>
            /\ exit_code = NONE
            /\ ip = prev.ip + 1
            /\ gas_counter = prev.gas - gas_cost("Jumpdest")
            /\ stack_ptr = prev.ptr /\ BelowKept(0)

\* C9: JUMPI pops pc, then condition; with any non-zero condition it does
\* what JUMP to pc does, with condition 0 it continues with the next
\* operation whatever pc is; two items are popped either way.
C9_JumpiTestsWholeCondition ==
    (Guarded /\ Last = "Jumpi") =>
        /\ stack_ptr = prev.ptr - 2
        /\ BelowKept(2)
        /\ gas_counter = prev.gas - gas_cost("Jumpi")
        /\ IF Second = 0
           THEN exit_code = NONE /\ ip = prev.ip + 1
           ELSE IF Top \in JumpdestPcs
                THEN exit_code = NONE /\ program[ip].op = "Jumpdest" /\ program[ip].pc = Top
                ELSE exit_code = REVERT_EXIT_CODE

\* the product of two words, cut to a word, digit by digit
RECURSIVE Product(_, _)
Product(a, b) ==
    IF a = 0 THEN 0 ELSE ((a % 16) * b + 16 * Product(a \div 16, b)) % WordMod

\* C10: with a on top and b below it, ADD leaves (a + b) mod 2^256, MUL
\* (a * b) mod 2^256 and SUB (a - b) mod 2^256 in place of the two, the
\* slots below untouched.
C10_Arithmetic ==
    (Guarded /\ Last \in {"Add", "Mul", "Sub"}) =>
        /\ exit_code = NONE
        /\ stack_ptr = prev.ptr - 1
        /\ BelowKept(2)
        /\ stack_slots[stack_ptr] =
              (CASE Last = "Add" -> (Top + Second) % WordMod
                 [] Last = "Mul" -> Product(Top, Second)
                 [] Last = "Sub" -> (Top - Second) % WordMod)

\* the third operand of the last operation, and what it left on top
Third == prev.slots[prev.ptr - 2]
Result == stack_slots[stack_ptr]

\* C11: with a on top and b below it, DIV leaves floor(a / b) and MOD leaves
\* a mod b when b # 0; when b = 0, DIV, MOD, SDIV and SMOD leave 0 and the
\* execution continues with the next operation; one result replaces the two
\* operands in every case.
C11_DivisionByZeroIsZero ==
    (Guarded /\ Last \in {"Div", "Mod", "Sdiv", "SMod"}) =>
        /\ exit_code = NONE
        /\ ip = prev.ip + 1
        /\ stack_ptr = prev.ptr - 1
        /\ BelowKept(2)
        /\ Second = 0 => Result = 0
        /\ (Second # 0 /\ Last = "Div") => Result = Top \div Second
        /\ (Second # 0 /\ Last = "Mod") => Result = Top % Second

\* (a * b) mod n, digit by digit
RECURSIVE ProductMod(_, _, _)
ProductMod(a, b, n) ==
    IF a = 0 THEN 0 ELSE ((a % 16) * (b % n) + 16 * ProductMod(a \div 16, b, n)) % n

\* C12: with a on top, b below it and n third, ADDMOD leaves (a + b) mod n
\* and MULMOD leaves (a * b) mod n, of the exact sum and product, when
\* n # 0, and 0 when n = 0; one result replaces the three operands.
C12_ModularArithmeticIsExact ==
    (Guarded /\ Last \in {"Addmod", "Mulmod"}) =>
        /\ exit_code = NONE
        /\ stack_ptr = prev.ptr - 2
        /\ BelowKept(3)
        /\ Third = 0 => Result = 0
        /\ (Third # 0 /\ Last = "Addmod") => Result = (Top + Second) % Third
        /\ (Third # 0 /\ Last = "Mulmod") => Result = ProductMod(Top, Second, Third)

\* the big-endian encoding of a word: the most significant byte first
to_be_bytes(w) == [k \in 1..WordBytes |-> (w \div Pow2(8 * (WordBytes - k))) % ByteMod]

\* C13: MSTORE(off, w) followed by MLOAD(off), where both succeed, leaves
\* exactly w on top of the stack.
C13_StoreLoadRoundTrip ==
    (Acted /\ Last = "Mload" /\ prev.before.op = "Mstore" /\ prev.before.top = Top
        /\ exit_code = NONE /\ ~oob) =>
        /\ stack_ptr = prev.ptr
        /\ Result = prev.before.second

\* every byte of the memory in use before the last operation, except the
\* width bytes at offset, is as it was
OthersKept(offset, width) ==
    \A i \in 1..Len(prev.memory) :
        (i - 1 < offset \/ i - 1 >= offset + width) => memory[i] = prev.memory[i]

\* C14: after MSTORE(off, w) the bytes memory[off..off+32] are the big-endian
\* encoding of w and no other byte of the memory in use changed, so that
\* RETURN(off, 32) hands the host that encoding; MSTORE8(off, v) changes
\* only memory[off], to v mod 256.
C14_StoreIsBigEndianInPlace ==
    /\ (Acted /\ Last = "Mstore" /\ ~Underflow(prev) /\ exit_code = NONE) =>
            /\ InMemory(memory, Top, WordBytes)
            /\ \A k \in 1..WordBytes : memory[Top + k] = to_be_bytes(Second)[k]
            /\ OthersKept(Top, WordBytes)
    /\ (Acted /\ Last = "Mstore8" /\ ~Underflow(prev) /\ exit_code = NONE) =>
            /\ InMemory(memory, Top, 1)
            /\ memory[Top + 1] = Second % ByteMod
            /\ OthersKept(Top, 1)
    /\ (Acted /\ Last = "Return" /\ prev.before.op = "Mstore" /\ prev.before.top = Top
            /\ ~Underflow(prev) /\ Second = WordBytes /\ exit_code = Return_u8) =>
            /\ ~return_values_panics(memory, return_data)
            /\ return_values(memory, return_data) = to_be_bytes(prev.before.second)

\* the topics the last operation, a LOG, found below offset and size, the
\* topmost first
TopicsGiven == [i \in 1..prev.op.arg |-> prev.slots[prev.ptr - 1 - i]]
\* the record list had room for one more
LogRoom == Len(prev.logs) < MaxLogs

\* C15: LOG_k given off, size, t1, ..., tk (top first) appends exactly one
\* record, whose data is memory[off..off+size] as it is when the LOG runs
\* and whose topics are t1, ..., tk in that order; the k + 2 operands are
\* popped.
C15_LogFidelity ==
    (Acted /\ Last = "Log" /\ ~Underflow(prev) /\ exit_code = NONE /\ LogRoom) =>
        /\ stack_ptr = prev.ptr - (2 + prev.op.arg)
        /\ BelowKept(2 + prev.op.arg)
        /\ Len(logs) = Len(prev.logs) + 1
        /\ logs[Len(logs)].topics = TopicsGiven
        /\ InMemory(prev.memory, Top, Second) \/ InMemory(memory, Top, Second)
        /\ Len(logs[Len(logs)].data) = Second
        /\ \A k \in 1..Second : logs[Len(logs)].data[k] = memory[Top + k]

\* C16: the log list only grows at its end, by one record per LOG: a step
\* keeps the records there are, in their order, and only a LOG adds one.
C16_LogsAppendOnly ==
    [][/\ Len(logs') >= Len(logs)
       /\ \A i \in 1..Len(logs) : logs'[i] = logs[i]
       /\ Len(logs') > Len(logs) => (CurOp.op = "Log" /\ Len(logs') = Len(logs) + 1)]_vars

\* two different records are in the list in the order of their LOGs, after a
\* store changed the memory the first was taken from
C16_Witness ==
    /\ Len(logs) = 2 /\ exit_code = Stop_u8
    /\ logs[1].topics # <<>> /\ logs[2].topics = <<>>
    /\ Len(logs[1].data) = 1 /\ Len(logs[2].data) = 1
    /\ logs[1].data[1] # logs[2].data[1]

\* what the claim says a LOG costs, the memory expansion aside
LogCost(b) == LOG_BASE_GAS + 8 * b.slots[b.ptr - 1] + LOG_BASE_GAS * b.op.arg

\* C17: a LOG_k for which the gas left is less than base + 8 * size +
\* 375 * k appends no record and ends the execution with exit code 3.
C17_LogGasCharged ==
    (Acted /\ Last = "Log" /\ ~Underflow(prev) /\ prev.gas < LogCost(prev)) =>
        /\ exit_code = REVERT_EXIT_CODE
        /\ logs = prev.logs

\* the byte of the calldata at index j, counted from 0
CalldataByte(j) == IF j < Len(calldata) THEN calldata[j + 1] ELSE 0

\* C18: CALLDATALOAD(offset) leaves 0 for every offset >= calldata_size, and
\* for a smaller offset the big-endian reading of calldata[offset..offset+32),
\* bytes past the end taken as zero; the depth is unchanged and no byte
\* outside the calldata is read.
C18_CalldataLoadBoundary ==
    (Guarded /\ Last = "CalldataLoad") =>
        /\ exit_code = NONE
        /\ stack_ptr = prev.ptr
        /\ BelowKept(1)
        /\ oob = prev.oob
        /\ Top >= Len(calldata) => Result = 0
        /\ Top < Len(calldata) =>
               to_be_bytes(Result) = [k \in 1..WordBytes |-> CalldataByte(Top + k - 1)]

C20_ExtendMemoryGrowsOnly ==
    /\ Acted => Len(memory) >= Len(prev.memory)
    /\ (Acted /\ Last = "extend_memory") =>
            /\ prev.op.arg <= Len(prev.memory) => (memory = prev.memory /\ ~reserve_failed)
            /\ (prev.op.arg > Len(prev.memory) /\ ~reserve_failed) =>
                    /\ Len(memory) = prev.op.arg
                    /\ \A i \in 1..Len(prev.memory) : memory[i] = prev.memory[i]
                    /\ \A i \in (Len(prev.memory) + 1)..Len(memory) : memory[i] = 0
            /\ reserve_failed => memory = prev.memory

\* a call that grew a memory holding a non-zero byte by two bytes or more
C20_Witness ==
    /\ Acted /\ Last = "extend_memory" /\ ~reserve_failed
    /\ Len(memory) >= Len(prev.memory) + 2
    /\ \E i \in 1..Len(prev.memory) : prev.memory[i] # 0

\* C21: after LT, GT, SLT, SGT, EQ and ISZERO the word on top of the stack
\* is 0 or 1: no bit of the value the slot held before is left in it.
C21_ComparisonPushesBit ==
    (Guarded /\ exit_code = NONE
        /\ Last \in {"Lt", "Gt", "Slt", "Sgt", "Eq", "IsZero"}) => Result \in {0, 1}

\* C22: with shift on top and value below it, SHL leaves
\* (value * 2^shift) mod 2^256 and SHR leaves floor(value / 2^shift) for
\* every shift up to 255, and both leave 0 for every shift from 256 on.
C22_ShiftsAreExact ==
    (Guarded /\ Last \in {"Shl", "Shr"}) =>
        /\ exit_code = NONE
        /\ stack_ptr = prev.ptr - 1
        /\ Top >= WordBits => Result = 0
        /\ (Top < WordBits /\ Last = "Shl") => Result = Product(Second, Pow2(Top))
        /\ (Top < WordBits /\ Last = "Shr") => Result = Second \div Pow2(Top)

\* the bits a shift of s places brings in from the left, all set
OnesAbove(s) == WordMod - Pow2(WordBits - s)

\* C23: with shift on top and value below it, SAR leaves value shifted right
\* by min(shift, 255) places with the sign bit filling in; so for every shift
\* from 255 on the result is 0 for a non-negative value and 2^256 - 1 for a
\* negative one.
C23_SarReplicatesSign ==
    (Guarded /\ Last = "Sar") =>
        /\ exit_code = NONE
        /\ stack_ptr = prev.ptr - 1
        /\ BelowKept(2)
        /\ LET s == IF Top < WordBits - 1 THEN Top ELSE WordBits - 1
               low == Second \div Pow2(s)
           IN Result = IF Second >= WordMod \div 2 THEN OnesAbove(s) + low ELSE low
        /\ Top >= WordBits - 1 =>
                Result = IF Second >= WordMod \div 2 THEN WordMod - 1 ELSE 0

\* C24: with k on top and v below it, SIGNEXTEND leaves, for k <= 30, the
\* word whose low 8(k+1) bits are those of v and whose higher bits all equal
\* bit 8k+7 of v; for every k >= 31 it leaves v.
C24_SignExtend ==
    (Guarded /\ Last = "SignExtend") =>
        /\ exit_code = NONE
        /\ stack_ptr = prev.ptr - 1
        /\ BelowKept(2)
        /\ Top >= WordBytes - 1 => Result = Second
        /\ Top <= WordBytes - 2 =>
                LET kept == 8 * (Top + 1)
                    sign == (Second \div Pow2(kept - 1)) % 2
                IN /\ Result % Pow2(kept) = Second % Pow2(kept)
                   /\ Result \div Pow2(kept) =
                        IF sign = 1 THEN Pow2(WordBits - kept) - 1 ELSE 0

\* C25: with i on top and v below it, BYTE leaves 0 for every i > 31, also
\* when i * 8 wraps around, and for i in 0..31 the i-th byte of v counted
\* from the most significant one, floor(v / 2^((31 - i) * 8)) mod 256.
C25_ByteIsExact ==
    (Guarded /\ Last = "Byte") =>
        /\ exit_code = NONE
        /\ stack_ptr = prev.ptr - 1
        /\ Top > WordBytes - 1 => Result = 0
        /\ Top <= WordBytes - 1 =>
                Result = (Second \div Pow2((WordBytes - 1 - Top) * 8)) % ByteMod

\* the value the last stack_pop call returned
Returned == prev.op.arg

\* C26: stack_pop returns the word in the slot just below the top and leaves
\* the stack top one slot lower; no stack slot and no other global changes.
C26_StackPopEffect ==
    (Acted /\ Last = "stack_pop") =>
        /\ Returned = prev.slots[prev.ptr]
        /\ stack_ptr = prev.ptr - 1
        /\ stack_slots = prev.slots
        /\ gas_counter = prev.gas /\ memory_size = prev.memory_size

\* the stack_push calls of the script, and the items there were before the
\* pushes that the pops answer
Pushes == Cardinality({i \in DOMAIN program : program[i].op = "stack_push"})
Original == 2 * Pushes - Len(program)

\* C27: n stack_push calls of v1..vn followed by n stack_pop calls return
\* vn, ..., v1 in that order, and put the stack top and every slot below the
\* original top back to what they were before the first push.
C27_StackIsLifo ==
    /\ (Acted /\ Last = "stack_pop") => Returned = program[2 * Pushes + 1 - prev.ip].arg
    /\ ip = Len(program) + 1 =>
        /\ stack_ptr = Original
        /\ \A i \in 1..Original : stack_slots[i] = program[i].arg

\* the numbers the claim gives the variants
ClaimedCode(status) ==
    CASE status = "Return" -> 0
      [] status = "Stop" -> 1
      [] status = "Revert" -> 2
      [] status = "Error" -> 3
      [] status = "Default" -> 4

\* C28: to_u8 maps Return, Stop, Revert, Error, Default to 0, 1, 2, 3, 4;
\* from_u8 of the byte to_u8 gave is the status it was given, and from_u8 of
\* every byte >= 4 is Default.
C28_ExitStatusCode ==
    [][/\ call_to_u8 => exit_code' = ClaimedCode(exit_status)
       /\ call_from_u8 =>
            /\ exit_code >= 4 => exit_status' = "Default"
            /\ Last = "to_u8" => exit_status' = exit_status]_vars

\* Default went to its byte, 4, and came back from it
C28_Witness ==
    /\ Last = "from_u8" /\ prev.before.op = "to_u8"
    /\ exit_code = 4 /\ exit_status = "Default"

\* the operations that reach the memory through MEMORY_PTR_GLOBAL
MemoryTouching == {"Mload", "Mstore", "Mstore8", "Mcopy"}

\* C29: MLOAD, MSTORE, MSTORE8 and MCOPY never dereference a memory pointer
\* taken before their own extension of the memory: the pointer they go
\* through is where the buffer is after the extension.
C29_PointerReloaded ==
    /\ ~dangling
    /\ (Acted /\ Last \in MemoryTouching /\ exit_code = NONE) => memory_ptr = buffer

\* a store went on after its extension had moved a buffer that held bytes
C29_Witness ==
    /\ Acted /\ Last = "Mstore" /\ exit_code = NONE
    /\ prev.memory # <<>> /\ Len(memory) > Len(prev.memory)
    /\ buffer # prev.buffer /\ memory_ptr = buffer

\* C30: DUPn at a depth below n or at depth MAX_STACK_SIZE ends with exit
\* code 3 and writes no slot; otherwise it pushes a copy of the n-th item
\* from the top and leaves the items there were as they are.
C30_DupGuarded ==
    (Acted /\ Last = "Dup" /\ ~GasShort(prev)) =>
        IF prev.ptr < prev.op.arg \/ prev.ptr >= MAX_STACK_SIZE
        THEN /\ exit_code = REVERT_EXIT_CODE
             /\ stack_ptr = prev.ptr
             /\ stack_slots = prev.slots
        ELSE /\ exit_code = NONE
             /\ stack_ptr = prev.ptr + 1
             /\ stack_slots[stack_ptr] = prev.slots[prev.ptr + 1 - prev.op.arg]
             /\ \A i \in 1..prev.ptr : stack_slots[i] = prev.slots[i]

\* the stack is as the last SWAPn found it, but for the top and the item n
\* below it, which have changed places
Exchanged(n) ==
    /\ stack_ptr = prev.ptr
    /\ Len(stack_slots) = Len(prev.slots)
    /\ stack_slots[prev.ptr] = prev.slots[prev.ptr - n]
    /\ stack_slots[prev.ptr - n] = prev.slots[prev.ptr]
    /\ \A i \in DOMAIN prev.slots \ {prev.ptr, prev.ptr - n} : stack_slots[i] = prev.slots[i]

\* C31: SWAPn at a depth of at least n + 1 exchanges the top with the item
\* n below it and leaves the depth and every other slot as they were; at a
\* depth of at most n it ends with exit code 3 and the stack as it was;
\* SWAPn done twice leaves the stack it started from.
C31_SwapExchanges ==
    /\ (Acted /\ Last = "Swap" /\ ~GasShort(prev)) =>
            IF prev.ptr >= prev.op.arg + 1
            THEN exit_code = NONE /\ Exchanged(prev.op.arg)
            ELSE /\ exit_code = REVERT_EXIT_CODE
                 /\ stack_ptr = prev.ptr
                 /\ stack_slots = prev.slots
    /\ (Acted /\ Last = "Swap" /\ exit_code = NONE
            /\ prev.before.op = "Swap" /\ prev.before.arg = prev.op.arg) =>
            (stack_ptr = prev.ptr /\ stack_slots = prev.before.slots)

\* SWAP16 has been done twice on 17 items that all differ
C31_Witness ==
    /\ Acted /\ Last = "Swap" /\ prev.op.arg = 16 /\ exit_code = NONE
    /\ prev.before.op = "Swap" /\ prev.before.arg = 16
    /\ stack_ptr = 17
    /\ stack_slots = [i \in 1..17 |-> i]
    /\ prev.slots[17] = 1 /\ prev.slots[1] = 17

\* the opcodes that pop nothing and push one item
PushOnly == {"Push0", "Push", "PC", "Msize", "Gas", "Codesize", "CallDataSize"}

\* C32: every opcode that only pushes (PUSH0, PUSHn, PC, MSIZE, GAS,
\* CODESIZE, CALLDATASIZE) ends with exit code 3 at depth MAX_STACK_SIZE and
\* writes no slot there, none past the stack region either; at a lower
\* depth it makes the stack one item deeper.
C32_PushOnlyGuarded ==
    (Acted /\ Last \in PushOnly /\ ~GasShort(prev) /\ prev.ptr <= MAX_STACK_SIZE) =>
        IF prev.ptr = MAX_STACK_SIZE
        THEN /\ exit_code = REVERT_EXIT_CODE
             /\ stack_ptr = prev.ptr
             /\ stack_slots = prev.slots
             /\ oob = prev.oob
        ELSE exit_code = NONE /\ stack_ptr = prev.ptr + 1

\* the byte at offset j of the memory the last operation found, 0 beyond it
OldByte(j) == IF j < Len(prev.memory) THEN prev.memory[j + 1] ELSE 0

Larger(a, b) == IF a >= b THEN a ELSE b

\* C33: MCOPY pops dst (the top), src and size; after it memory[dst..dst+size]
\* holds what memory[src..src+size] held before, also when the two ranges
\* overlap; the memory is extended to cover max(src + size, dst + size); the
\* bytes outside the destination range keep their value.
C33_McopyMoves ==
    (Acted /\ Last = "Mcopy" /\ exit_code = NONE) =>
        LET dst == Top
            src == Second
            size == Third
        IN /\ stack_ptr = prev.ptr - 3
           /\ size > 0 => Len(memory) >= Larger(src + size, dst + size)
           /\ \A i \in 0..(size - 1) :
                dst + i < Len(memory) /\ memory[dst + i + 1] = OldByte(src + i)
           /\ \A j \in 0..(Len(memory) - 1) :
                (j < dst \/ j >= dst + size) => memory[j + 1] = OldByte(j)

\* what the host is told of the execution so far
Reported == get_result(memory, return_data, gas_remaining, exit_status, logs)

\* C34: get_result reports Success, with the return data, the gas left and
\* all the logs, exactly when the status recorded is Return or Stop; Revert,
\* with the return data and the gas left and no logs, exactly when it is
\* Revert; Halt when it is Error or Default or write_result was never
\* called: an execution that ended through the revert trampoline is
\* reported as Halt.
C34_GetResult ==
    /\ Reported.kind = "Success" <=> exit_status \in {"Return", "Stop"}
    /\ Reported.kind = "Revert" <=> exit_status = "Revert"
    /\ Reported.kind = "Halt" <=> exit_status \in {"Error", "Default", "None"}
    /\ Reported.kind = "Success" =>
            /\ DOMAIN Reported = {"kind", "return_data", "gas_remaining", "logs"}
            /\ Reported.gas_remaining = gas_counter
            /\ Reported.logs = logs
    /\ Reported.kind = "Revert" =>
            /\ DOMAIN Reported = {"kind", "return_data", "gas_remaining"}
            /\ Reported.gas_remaining = gas_counter
    /\ exit_code = REVERT_EXIT_CODE => Reported.kind = "Halt"

\* a word read as a two's complement number
AsSigned(w) == IF w >= WordMod \div 2 THEN w - WordMod ELSE w

\* what the comparison o is to find for a on top and b below it
Compares(o, a, b) ==
    CASE o = "Lt" -> a < b
      [] o = "Gt" -> a > b
      [] o = "Slt" -> AsSigned(a) < AsSigned(b)
      [] o = "Sgt" -> AsSigned(a) > AsSigned(b)
      [] o = "Eq" -> a = b

\* C35: with a on top and b below it, LT pushes 1 iff a < b and GT pushes 1
\* iff a > b as unsigned numbers, SLT and SGT the same for the words read as
\* two's complement, EQ pushes 1 iff a = b, and each pushes 0 otherwise: GT
\* of (a, b) is LT of (b, a), and SGT of (a, b) is SLT of (b, a).
C35_ComparisonsOrdered ==
    (Guarded /\ exit_code = NONE /\ Last \in {"Lt", "Gt", "Slt", "Sgt", "Eq"}) =>
        /\ Result = (IF Compares(Last, Top, Second) THEN 1 ELSE 0)
        /\ Last = "Gt" => (Result = 1 <=> Compares("Lt", Second, Top))
        /\ Last = "Sgt" => (Result = 1 <=> Compares("Slt", Second, Top))

\* a to the power b, as a word
RECURSIVE Power(_, _)
Power(a, b) ==
    IF b = 0 THEN 1
    ELSE CHOOSE r \in {Product(Product(h, h), IF b % 2 = 1 THEN a ELSE 1) :
                            h \in {Power(a, b \div 2)}} : TRUE

\* C36: with the base a on top and the exponent b below it, EXP pushes
\* a^b mod 2^256 and charges its static cost and nothing else, whatever the
\* exponent is.
C36_ExpPower ==
    (Guarded /\ Last = "Exp") =>
        /\ exit_code = NONE
        /\ stack_ptr = prev.ptr - 1
        /\ Result = Power(Top, Second)
        /\ gas_counter = prev.gas - gas_cost("Exp")

\* the opcodes that take an offset into the memory from the stack
MemoryAddressing == MemoryTouching \cup {"Log", "Return", "Revert"}

\* C37: whatever offset and size MLOAD, MSTORE, MSTORE8, MCOPY, LOG, RETURN
\* and REVERT pop, every byte read or written by the opcode, by the log
\* syscall and by the host's return_values lies within the memory, also
\* when offset + width wraps in the offset width; an access that cannot be
\* made within the memory ends with exit code 3.
C37_MemoryAccessInBounds ==
    (Acted /\ Last \in MemoryAddressing /\ ~Underflow(prev)
        /\ prev.ptr < MAX_STACK_SIZE /\ ~prev.oob) =>
        /\ ~oob
        /\ exit_code # PANICKED
        /\ ~return_values_panics(memory, return_data)

\* C38: MLOAD, MSTORE and MSTORE8 with an offset of 2^32 or more on top do
\* not read or write the memory at the offset cut to 32 bits: they end with
\* exit code 3, whatever the gas, and the memory holds what it held.
C38_WideOffsetRejected ==
    (Acted /\ Last \in {"Mload", "Mstore", "Mstore8"} /\ ~Underflow(prev)
        /\ Top >= OffsetMod) =>
        /\ exit_code = REVERT_EXIT_CODE
        /\ memory = prev.memory

\* C39: check_stack_has_space_for(n), for n from 0 to MAX_STACK_SIZE - 1,
\* yields true exactly when the depth plus n is at most MAX_STACK_SIZE; it
\* reads the two globals of the stack and leaves the stack pointer and the
\* slots as they are.
C39_SpaceCheck ==
    (Acted /\ Last = "check_stack_has_space_for") =>
        /\ prev.op.pc = 1 <=> prev.ptr + prev.op.arg <= MAX_STACK_SIZE
        /\ stack_ptr = prev.ptr
        /\ stack_slots = prev.slots

\* the check has found that three more items fit on a stack with three
\* slots left
C39_Witness ==
    /\ Acted /\ Last = "check_stack_has_space_for"
    /\ prev.ptr = MAX_STACK_SIZE - 3 /\ prev.op.arg = 3 /\ prev.op.pc = 1
    /\ stack_ptr = MAX_STACK_SIZE - 3

====
